---- MODULE Spec2Model ----
(***************************************************************************)
(* react-static-render: the command line front end (renderAction,          *)
(* renderWithConcurrency on top of p-limit, reportResults), the render     *)
(* executor (renderFile, one worker subprocess per entry point) and the    *)
(* change watcher (FileWatcher) as one state machine.                      *)
(*                                                                         *)
(* Node runs one handler at a time.  A handler runs up to its first await  *)
(* on I/O; promise continuations (microtasks) run before the next I/O      *)
(* event is delivered.  Every action below is one such handler or one      *)
(* microtask, and the actions that stand for I/O events are guarded by     *)
(* Quiescent (no microtask is pending).                                    *)
(***************************************************************************)
EXTENDS Integers, Sequences, FiniteSets, TLC

VARIABLES
  cli,       \* renderAction: its position, its arguments and the exit code
  config,    \* the RenderConfig the command runs with (NoConfig before load)
  batches,   \* one record per call of renderWithConcurrency, in call order
  watcher,   \* FileWatcher: chokidar subscription and the two graphs
  handlers,  \* one record per call of FileWatcher.handleFileChange
  imports,   \* the file system: which file imports which
  cpus,      \* os.cpus().length on this machine
  log,       \* what reportResults printed, one summary per call
  liveReloadServer,  \* LiveReloadServer of startWatchMode and its sockets
  shutdown,  \* the SIGINT handler of startWatchMode and its shutdownTasks
  worker,    \* one worker process: where main() is and how it ended
  outputFiles,  \* the files under outputDir, by entry point
  renderer   \* Renderer: its processes, its renderFiles call and its stop()

vars == <<cli, config, batches, watcher, handlers, imports, cpus, log,
          liveReloadServer, shutdown, worker, outputFiles, renderer>>

----------------------------------------------------------------------------
(* Bounds of the model *)

MaxFiles == 3     \* longest list of files given to one batch
MaxLimit == 2     \* largest configured maxConcurrentRenders
MaxCpus == 2      \* largest os.cpus().length
MaxEvents == 2    \* file system notifications delivered in one watch session
MaxClients == 2   \* browser sockets that connect to the live reload server
MaxRuns == 2      \* worker processes looked at one after the other
MaxMessages == 2  \* messages the browser sockets send in one session
MaxStarts == 2    \* calls of LiveReloadServer.start() on one server object
MaxStops == 3     \* calls of LiveReloadServer.stop() on one server object

----------------------------------------------------------------------------
(* Paths.  A path is a record: absolute or relative, the directory as a   *)
(* sequence of segments, the base name and the extension (without the     *)
(* dot), as path.parse sees it.                                            *)

Path(abs, dir, name, ext) == [abs |-> abs, dir |-> dir, name |-> name, ext |-> ext]

\* process.cwd()
cwd == <<"project">>

\* path.resolve(p): an absolute path stays, a relative one is taken from cwd
resolve(p) == IF p.abs THEN p ELSE [p EXCEPT !.abs = TRUE, !.dir = cwd \o p.dir]

\* path.resolve(dir) for a configured directory
resolveDir(dir) == cwd \o dir

\* path.join(base, p) for a relative directory base and a relative path p
join(base, p) == [p EXCEPT !.dir = base \o p.dir]

\* absolutePath.startsWith(dir + '/') for a resolved directory dir
startsWith(p, dir) ==
  /\ p.abs
  /\ Len(p.dir) >= Len(dir)
  /\ SubSeq(p.dir, 1, Len(dir)) = dir

\* absolutePath.substring(dir.length + 1): what follows "dir/", a relative path
substring(p, dir) ==
  [p EXCEPT !.abs = FALSE, !.dir = SubSeq(p.dir, Len(dir) + 1, Len(p.dir))]

Max(a, b) == IF a >= b THEN a ELSE b

\* The process has not exited: nothing runs after process.exit or a kill
Alive == cli.pc # "exited"

SeqsUpTo(S, n) == UNION {[1..k -> S] : k \in 0..n}

Range(s) == {s[i] : i \in DOMAIN s}

----------------------------------------------------------------------------
(* Configuration, as loadConfig validates it *)

entryPointDir == <<"src", "entry-points">>
templateDir == <<"templates">>
outputDir == <<"dist">>
componentsDir == <<"src", "components">>
fileExtensions == {"js", "jsx", "ts", "tsx"}

Auto == [kind |-> "auto"]
Number(n) == [kind |-> "number", value |-> n]

MaxConcurrentValues == {Auto} \cup {Number(n) : n \in 1..MaxLimit}

NoConfig == [loaded |-> FALSE]

Configs ==
  [loaded : {TRUE}, maxConcurrentRenders : MaxConcurrentValues]

\* options.config: no --config option, or the path given with it
ConfigPaths == {<<>>, <<"custom.json">>}

\* What loadConfigSource finds at the config path (or at the default paths)
ConfigFileStates == {"missing", "unreadable", "invalidJson", "invalidSchema", "valid"}

ConfigErrorCodes ==
  {"CONFIG_READ_ERROR", "CONFIG_NOT_FOUND", "CONFIG_PARSE_ERROR",
   "CONFIG_VALIDATION_ERROR"}

\* The RenderError loadConfigSource, parseConfigData or validateConfig
\* throws for a config file in state file
configError(configPath, file) ==
  IF file \in {"missing", "unreadable"}
    THEN IF configPath # <<>> THEN "CONFIG_READ_ERROR" ELSE "CONFIG_NOT_FOUND"
    ELSE IF file = "invalidJson" THEN "CONFIG_PARSE_ERROR"
    ELSE "CONFIG_VALIDATION_ERROR"

\* A loadConfig without its catch block: the RenderError escapes
loadConfigThrows(configPath, file, cfg) ==
  IF file = "valid"
    THEN [state |-> "fulfilled", value |-> [success |-> TRUE, data |-> cfg]]
    ELSE [state |-> "rejected"]

\* The promise of loadConfig(configPath): a ConfigLoadResult, cfg being what
\* a valid file validates to
loadConfig(configPath, file, cfg) ==
  IF file = "valid"
    THEN [state |-> "fulfilled", value |-> [success |-> TRUE, data |-> cfg]]
    ELSE [state |-> "fulfilled",
          value |-> [success |-> FALSE,
                     error |-> [code |-> configError(configPath, file)]]]

\* Entry points by their path relative to entryPointDir
Home == Path(FALSE, <<>>, "home", "tsx")
About == Path(FALSE, <<>>, "about", "tsx")

EntryRel == {Home, About}

----------------------------------------------------------------------------
(* Render executor: renderFile                                             *)
(*                                                                         *)
(* An ending is how the worker subprocess ended, as execa reports it:      *)
(* spawned or not, the exit code and the signal (None when there is none). *)

None == <<>>        \* null / undefined
Some(v) == <<v>>

Ending(spawned, exitCode, signal) ==
  [spawned |-> spawned, exitCode |-> exitCode, signal |-> signal]

ExitOk == Ending(TRUE, Some(0), None)          \* worker: process.exit(0)
ExitError == Ending(TRUE, Some(1), None)       \* worker: exitWithError
Killed == Ending(TRUE, None, Some("SIGKILL"))  \* worker killed by a signal
SpawnFailed == Ending(FALSE, None, None)       \* node could not be started

Endings == {ExitOk, ExitError, Killed, SpawnFailed}

\* execa rejects unless the process ran and exited with code 0
execaRejects(e) == ~(e.spawned /\ e.exitCode = Some(0))

\* JavaScript truthiness of err.exitCode (undefined and 0 are falsy)
Truthy(exitCode) == exitCode # None /\ exitCode # Some(0)

Fulfilled(v) == [state |-> "fulfilled", value |-> v]
Rejected == [state |-> "rejected"]
Pending == [state |-> "pending"]

RenderError(code, filePath) == [code |-> code, filePath |-> filePath]

\* A renderFile without its catch branch: the execa rejection escapes
renderFileNoCatch(filePath, e) ==
  IF execaRejects(e)
    THEN Rejected
    ELSE Fulfilled([success |-> TRUE,
                    data |-> join(outputDir, filePath),
                    outputPath |-> join(outputDir, filePath)])

\* A renderFile that takes a worker killed by a signal for a success
renderFileSignalOk(filePath, e) ==
  IF e.spawned /\ e.exitCode \in {Some(0), None}
    THEN Fulfilled([success |-> TRUE,
                    data |-> join(outputDir, filePath),
                    outputPath |-> join(outputDir, filePath)])
    ELSE Fulfilled([success |-> FALSE,
                    error |-> RenderError("PROCESS_EXIT_ERROR", filePath)])

\* The promise renderFile(filePath, config) settles to when its worker
\* ends with e
renderFile(filePath, e) ==
  IF ~execaRejects(e)
    THEN LET outputPath == join(outputDir, filePath)
         IN Fulfilled([success |-> TRUE,
                       data |-> outputPath,
                       outputPath |-> outputPath])
    ELSE Fulfilled([success |-> FALSE,
                    error |-> RenderError(
                      IF Truthy(e.exitCode) THEN "PROCESS_EXIT_ERROR"
                                            ELSE "PROCESS_SPAWN_ERROR",
                      filePath)])

----------------------------------------------------------------------------
(* Render scheduler: renderWithConcurrency over p-limit and Promise.all    *)

\* A task of a batch: where it is, how often renderFile was called for it,
\* how its worker ended and the promise limit(...) returned for it
QueuedTask == [st |-> "queued", runs |-> 0, ending |-> None, promise |-> Pending]

\* Promise.any in place of Promise.all: settles with the first outcome
PromiseAny(ps) ==
  IF \E i \in DOMAIN ps : ps[i].state = "fulfilled"
    THEN Fulfilled(
           LET i == CHOOSE j \in DOMAIN ps : ps[j].state = "fulfilled"
           IN <<ps[i].value>>)
    ELSE Pending

\* A Promise.all that hands out the values last promise first
PromiseAllReversed(ps) ==
  IF \E i \in DOMAIN ps : ps[i].state = "rejected"
    THEN Rejected
    ELSE IF \A i \in DOMAIN ps : ps[i].state = "fulfilled"
           THEN Fulfilled([i \in DOMAIN ps |-> ps[Len(ps) + 1 - i].value])
           ELSE Pending

\* Promise.all(promises): rejected as soon as one promise is rejected,
\* fulfilled with all values, in input order, once all are fulfilled
PromiseAll(ps) ==
  IF \E i \in DOMAIN ps : ps[i].state = "rejected"
    THEN Rejected
    ELSE IF \A i \in DOMAIN ps : ps[i].state = "fulfilled"
           THEN Fulfilled([i \in DOMAIN ps |-> ps[i].value])
           ELSE Pending

\* const maxConcurrent = ... 'auto' ? Math.max(1, cpus().length) : configured
maxConcurrent(cfg, ncpu) ==
  IF cfg.maxConcurrentRenders.kind = "auto"
    THEN Max(1, ncpu)
    ELSE cfg.maxConcurrentRenders.value

\* p-limit that lets one task too many through
hasFreeSlotOffByOne(b) == b.activeCount <= b.maxConcurrent

\* p-limit: activeCount < concurrency
hasFreeSlot(b) == b.activeCount < b.maxConcurrent

\* p-limit run(): the head of the queue leaves the queue and renderFile is
\* called for it, which spawns its worker
run(b) ==
  LET i == Head(b.queue)
  IN [b EXCEPT !.queue = Tail(b.queue),
               !.activeCount = b.activeCount + 1,
               !.task[i].st = "running",
               !.task[i].runs = b.task[i].runs + 1]

\* p-limit next(): frees the slot and starts the next queued task
next(b) ==
  LET freed == [b EXCEPT !.activeCount = b.activeCount - 1]
  IN IF Len(freed.queue) > 0 THEN run(freed) ELSE freed

\* The state of Promise.all(promises) of a batch
settle(b) ==
  [b EXCEPT !.all = PromiseAll([i \in DOMAIN b.task |-> b.task[i].promise])]

\* Who awaits a batch: renderAction, or the change callback that call h of
\* handleFileChange awaits
ByRenderAction == [by |-> "renderAction", handler |-> 0]
ByHandler(h) == [by |-> "handleFileChange", handler |-> h]

\* What is left of a batch once its caller has taken the results: the
\* promises, the p-limit queue and the results are garbage
released(b) ==
  [b EXCEPT !.files = <<>>, !.queue = <<>>, !.task = <<>>,
            !.all = [state |-> "released"], !.consumed = TRUE]

\* renderWithConcurrency(files, config): limit(...) is called for every
\* file, which queues it and schedules one microtask of p-limit
renderWithConcurrency(files, cfg, ncpu, owner) ==
  settle([files |-> files,
          owner |-> owner,
          maxConcurrent |-> maxConcurrent(cfg, ncpu),
          queue |-> [i \in 1..Len(files) |-> i],
          activeCount |-> 0,
          ticks |-> Len(files),
          task |-> [i \in 1..Len(files) |-> QueuedTask],
          all |-> Pending,
          consumed |-> FALSE])

\* Tasks of b whose renderFile has started and has no outcome yet
InFlight(b) == {i \in DOMAIN b.task : b.task[i].st \in {"running", "hung"}}

\* A microtask is pending: a p-limit tick, or the continuation of a caller
\* whose batch has settled
MicrotaskPending ==
  \/ \E k \in DOMAIN batches :
       \/ batches[k].ticks > 0
       \/ batches[k].all.state # "pending" /\ ~batches[k].consumed
  \/ /\ shutdown.started
     /\ Alive
     /\ PromiseAll(shutdown.shutdownTasks).state # "pending"

Quiescent == ~MicrotaskPending

----------------------------------------------------------------------------
(* Scheduler and executor steps, the same for every caller of              *)
(* renderWithConcurrency                                                   *)

\* One microtask of p-limit: it starts the head of the queue when a slot is
\* free
PLimitTick(k) ==
  /\ Alive
  /\ k \in DOMAIN batches
  /\ batches[k].ticks > 0
  /\ LET b == [batches[k] EXCEPT !.ticks = batches[k].ticks - 1]
     IN batches' = [batches EXCEPT ![k] =
          IF hasFreeSlot(b) /\ Len(b.queue) > 0 THEN run(b) ELSE b]
  /\ UNCHANGED <<liveReloadServer, shutdown, worker, outputFiles, renderer>>
  /\ UNCHANGED <<cli, config, watcher, handlers, imports, cpus, log>>

\* The worker of task i of batch k ends with e: renderFile settles, p-limit
\* frees the slot and starts the next task, Promise.all looks at the promises
WorkerEnd(k, i, e) ==
  /\ Alive
  /\ Quiescent
  /\ k \in DOMAIN batches
  /\ i \in DOMAIN batches[k].task
  /\ batches[k].task[i].st = "running"
  /\ LET b == batches[k]
         done == [b EXCEPT !.task[i].st = "settled",
                           !.task[i].ending = Some(e),
                           !.task[i].promise = renderFile(b.files[i], e)]
     IN batches' = [batches EXCEPT ![k] = settle(next(done))]
  /\ UNCHANGED <<liveReloadServer, shutdown, worker, outputFiles, renderer>>
  /\ UNCHANGED <<cli, config, watcher, handlers, imports, cpus, log>>

\* The worker of task i of batch k hangs: the entry point's code never
\* returns, so the process never exits on its own
WorkerHang(k, i) ==
  /\ Alive
  /\ Quiescent
  /\ k \in DOMAIN batches
  /\ i \in DOMAIN batches[k].task
  /\ batches[k].task[i].st = "running"
  /\ batches' = [batches EXCEPT ![k].task[i].st = "hung"]
  /\ UNCHANGED <<liveReloadServer, shutdown, worker, outputFiles, renderer>>
  /\ UNCHANGED <<cli, config, watcher, handlers, imports, cpus, log>>

----------------------------------------------------------------------------
(* Command line: renderAction, handleConfigLoad, reportResults             *)

\* What reportResults prints for the results of one batch
reportResults(results) ==
  LET successful == Cardinality({i \in DOMAIN results : results[i].success})
      failed == Len(results) - successful
  IN [successful |-> successful,
      failed |-> failed,
      lines |-> {results[i].error.filePath :
                   i \in {j \in DOMAIN results : ~results[j].success}}]

\* process.exit(0) at the end of renderAction in non-watch mode
exitCodeAfterReport(results) == 0

\* Files the user can name on the command line
ArgFiles == EntryRel

\* What glob can find under entryPointDir: each entry point at most once
Discoveries ==
  {s \in SeqsUpTo(EntryRel, MaxFiles) :
     \A i, j \in DOMAIN s : i # j => s[i] # s[j]}

\* renderAction(files, options) up to its first await (loadConfig)
RenderAction(files, watch) ==
  /\ cli.pc = "init"
  /\ cli' = [cli EXCEPT !.pc = "handleConfigLoad", !.files = files, !.watch = watch]
  /\ UNCHANGED <<liveReloadServer, shutdown, worker, outputFiles, renderer>>
  /\ UNCHANGED <<config, batches, watcher, handlers, imports, cpus, log>>

\* loadConfig failed: handleConfigLoad prints the error and exits with 1 (a
\* rejection would end in the catch block of renderAction, which exits with 1)
ConfigLoadFailed(configPath, file) ==
  /\ cli.pc = "handleConfigLoad"
  /\ LET configResult == loadConfig(configPath, file, NoConfig)
     IN /\ ~(configResult.state = "fulfilled" /\ configResult.value.success)
        /\ cli' = [cli EXCEPT !.pc = "exited", !.exitCode = Some(1),
                              !.configResult = Some(configResult)]
  /\ UNCHANGED <<liveReloadServer, shutdown, worker, outputFiles, renderer>>
  /\ UNCHANGED <<config, batches, watcher, handlers, imports, cpus, log>>

\* loadConfig succeeded: renderAction goes on to its next await, the batch
\* of the explicit files or the discovery of the entry points
ConfigLoaded(cfg) ==
  /\ cli.pc = "handleConfigLoad"
  /\ LET configResult == loadConfig(<<>>, "valid", cfg)
     IN /\ configResult.state = "fulfilled" /\ configResult.value.success
        /\ config' = configResult.value.data
        /\ IF Len(cli.files) > 0
             THEN /\ batches' = Append(batches,
                       renderWithConcurrency(cli.files, cfg, cpus, ByRenderAction))
                  /\ cli' = [cli EXCEPT !.pc = "renderWithConcurrency",
                                        !.configResult = Some(configResult)]
             ELSE /\ batches' = batches
                  /\ cli' = [cli EXCEPT !.pc = "findEntryPoints",
                                        !.configResult = Some(configResult)]
  /\ UNCHANGED <<liveReloadServer, shutdown, worker, outputFiles, renderer>>
  /\ UNCHANGED <<watcher, handlers, imports, cpus, log>>

\* findEntryPoints returned (an empty list when glob failed)
FindEntryPoints(found) ==
  /\ cli.pc = "findEntryPoints"
  /\ batches' = Append(batches,
       renderWithConcurrency(found, config, cpus, ByRenderAction))
  /\ cli' = [cli EXCEPT !.pc = "renderWithConcurrency", !.entryPoints = Some(found)]
  /\ UNCHANGED <<liveReloadServer, shutdown, worker, outputFiles, renderer>>
  /\ UNCHANGED <<config, watcher, handlers, imports, cpus, log>>

\* The batch of renderAction settled: reportResults, then startWatchMode or
\* process.exit(0); a rejection goes to the catch block, process.exit(1)
RenderActionContinue(k) ==
  /\ cli.pc = "renderWithConcurrency"
  /\ k \in DOMAIN batches
  /\ batches[k].owner = ByRenderAction
  /\ batches[k].ticks = 0
  /\ batches[k].all.state # "pending"
  /\ ~batches[k].consumed
  /\ batches' = [batches EXCEPT ![k] = released(batches[k])]
  /\ IF batches[k].all.state = "rejected"
       THEN /\ log' = log
            /\ cli' = [cli EXCEPT !.pc = "exited", !.exitCode = Some(1)]
       ELSE /\ log' = Append(log, reportResults(batches[k].all.value))
            /\ cli' = IF cli.watch
                        THEN [cli EXCEPT !.pc = "startWatchMode"]
                        ELSE [cli EXCEPT !.pc = "exited",
                                !.exitCode = Some(exitCodeAfterReport(batches[k].all.value))]
  /\ UNCHANGED <<liveReloadServer, shutdown, worker, outputFiles, renderer>>
  /\ UNCHANGED <<config, watcher, handlers, imports, cpus>>

----------------------------------------------------------------------------
(* Live reload: LiveReloadServer.  A socket is known by a number; its      *)
(* readyState is NONE before it connects.                                  *)

Clients == 1..MaxClients

\* liveReloadServer = null
NoLiveReloadServer ==
  [exists |-> FALSE, wss |-> FALSE, closing |-> FALSE,
   connectedClients |-> {},
   readyState |-> [c \in Clients |-> "NONE"],
   messages |-> [c \in Clients |-> <<>>],
   received |-> <<>>,
   servers |-> 0, starts |-> 0, stops |-> <<>>]

\* A start() that creates a server whether there is one or not
startAgain(s) == [s EXCEPT !.wss = TRUE, !.servers = @ + 1]

\* start(): nothing when this.wss is set, else createServer() and new
\* WebSocketServer.  servers counts the http servers created and not closed
start(s) == IF s.wss THEN s ELSE [s EXCEPT !.wss = TRUE, !.servers = @ + 1]

\* new LiveReloadServer(config) and start(): the http server and the
\* WebSocketServer exist and take connections
startLiveReload == start([NoLiveReloadServer EXCEPT !.exists = TRUE])

\* A sendMessage that does not look at the readyState of the socket
sendMessageAnyState(s, ws, message) ==
  [s EXCEPT !.messages[ws] = Append(@, message)]

\* sendMessage(ws, message): ws.send only on an open socket
sendMessage(s, ws, message) ==
  IF s.readyState[ws] = "OPEN"
    THEN [s EXCEPT !.messages[ws] = Append(@, message)]
    ELSE s

\* broadcast(message): sendMessage for every socket in connectedClients
broadcast(s, message) ==
  [s EXCEPT !.messages =
     [c \in Clients |->
        IF c \in s.connectedClients
          THEN sendMessage(s, c, message).messages[c]
          ELSE s.messages[c]]]

\* The message of broadcastReload.  batch and failed are not on the wire:
\* they say after which batch, with how many failed outcomes, it was sent
ReloadMessage(k, failed) == [type |-> "reload", batch |-> k, failed |-> failed]

\* liveReloadServer?.broadcastReload() at the end of the change callback
broadcastReload(s, k, failed) ==
  IF s.exists THEN broadcast(s, ReloadMessage(k, failed)) ELSE s

\* LiveReloadServer.stop() up to wss.close(): resolved at once without a
\* server, else every socket is terminated and the set is cleared
stopLiveReload(s) ==
  IF ~s.wss
    THEN [server |-> s, promise |-> Fulfilled("void")]
    ELSE [server |-> [s EXCEPT !.closing = TRUE,
                               !.connectedClients = {},
                               !.readyState =
                                  [c \in Clients |->
                                     IF c \in s.connectedClients
                                       THEN "CLOSED" ELSE s.readyState[c]]],
          promise |-> Pending]

\* wss.on('connection'): socket c connects
Connection(c) ==
  /\ Alive
  /\ Quiescent
  /\ liveReloadServer.wss
  /\ ~liveReloadServer.closing
  /\ liveReloadServer.readyState[c] = "NONE"
  /\ liveReloadServer' = [liveReloadServer EXCEPT
                            !.connectedClients = @ \cup {c},
                            !.readyState[c] = "OPEN"]
  /\ UNCHANGED <<shutdown, worker, outputFiles, renderer>>
  /\ UNCHANGED <<cli, config, batches, watcher, handlers, imports, cpus, log>>

\* The closing handshake of socket c has begun: it is no longer OPEN and its
\* 'close' event has not been emitted yet
SocketClosing(c) ==
  /\ Alive
  /\ Quiescent
  /\ c \in liveReloadServer.connectedClients
  /\ liveReloadServer.readyState[c] = "OPEN"
  /\ liveReloadServer' = [liveReloadServer EXCEPT !.readyState[c] = "CLOSING"]
  /\ UNCHANGED <<shutdown, worker, outputFiles, renderer>>
  /\ UNCHANGED <<cli, config, batches, watcher, handlers, imports, cpus, log>>

\* ws.on('close'): the socket is removed from connectedClients
SocketClose(c) ==
  /\ Alive
  /\ Quiescent
  /\ c \in liveReloadServer.connectedClients
  /\ liveReloadServer.readyState[c] = "CLOSING"
  /\ liveReloadServer' = [liveReloadServer EXCEPT
                            !.connectedClients = @ \ {c},
                            !.readyState[c] = "CLOSED"]
  /\ UNCHANGED <<shutdown, worker, outputFiles, renderer>>
  /\ UNCHANGED <<cli, config, batches, watcher, handlers, imports, cpus, log>>

----------------------------------------------------------------------------
(* Shutdown: the SIGINT handler of startWatchMode *)

\* Before process.on('SIGINT', ...)
NoShutdown == [installed |-> FALSE, started |-> FALSE, shutdownTasks |-> <<>>]

\* FileWatcher.stop() up to watcher.close(): resolved at once without a
\* chokidar watcher, else chokidar stops reporting and closes
stopWatcher(w) ==
  IF ~(w.open \/ w.closing)
    THEN [watcher |-> w, promise |-> Fulfilled("void")]
    ELSE [watcher |-> [w EXCEPT !.open = FALSE, !.closing = TRUE],
          promise |-> Pending]

\* SIGINT with the handler installed: both stop() calls are made and the
\* handler waits for Promise.all(shutdownTasks)
Sigint ==
  /\ Alive
  /\ Quiescent
  /\ shutdown.installed
  /\ ~shutdown.started
  /\ LET w == stopWatcher(watcher)
         l == stopLiveReload(liveReloadServer)
     IN /\ watcher' = w.watcher
        /\ liveReloadServer' = IF liveReloadServer.exists THEN l.server
                                                           ELSE liveReloadServer
        /\ shutdown' = [shutdown EXCEPT
              !.started = TRUE,
              !.shutdownTasks =
                 IF liveReloadServer.exists THEN <<w.promise, l.promise>>
                                            ELSE <<w.promise>>]
  /\ UNCHANGED <<worker, outputFiles, renderer>>
  /\ UNCHANGED <<cli, config, batches, handlers, imports, cpus, log>>

\* SIGINT before process.on('SIGINT', ...) has run: Node has no listener
\* and ends the process at once
SigintDefault ==
  /\ Alive
  /\ ~shutdown.installed
  /\ cli' = [cli EXCEPT !.pc = "exited", !.exitCode = None]
  /\ UNCHANGED <<liveReloadServer, shutdown, worker, outputFiles, renderer>>
  /\ UNCHANGED <<config, batches, watcher, handlers, imports, cpus, log>>

\* The promise of chokidar's close() resolved: this.watcher = null, resolve()
WatcherClosed ==
  /\ Alive
  /\ Quiescent
  /\ watcher.closing
  /\ watcher' = [watcher EXCEPT !.closing = FALSE]
  /\ shutdown' = [shutdown EXCEPT !.shutdownTasks[1] = Fulfilled("void")]
  /\ UNCHANGED <<liveReloadServer, worker, outputFiles, renderer>>
  /\ UNCHANGED <<cli, config, batches, handlers, imports, cpus, log>>

\* The callbacks of wss.close and server.close have run: wss = null,
\* server = null, resolve()
LiveReloadClosed ==
  /\ Alive
  /\ Quiescent
  /\ liveReloadServer.closing
  /\ liveReloadServer' = [liveReloadServer EXCEPT !.wss = FALSE, !.closing = FALSE,
                                                   !.servers = @ - 1]
  /\ shutdown' = [shutdown EXCEPT !.shutdownTasks[2] = Fulfilled("void")]
  /\ UNCHANGED <<worker, outputFiles, renderer>>
  /\ UNCHANGED <<cli, config, batches, watcher, handlers, imports, cpus, log>>

\* Promise.all(shutdownTasks) settled: process.exit(0)
ShutdownExit ==
  /\ Alive
  /\ shutdown.started
  /\ PromiseAll(shutdown.shutdownTasks).state = "fulfilled"
  /\ cli' = [cli EXCEPT !.pc = "exited", !.exitCode = Some(0)]
  /\ UNCHANGED <<liveReloadServer, shutdown, worker, outputFiles, renderer>>
  /\ UNCHANGED <<config, batches, watcher, handlers, imports, cpus, log>>

----------------------------------------------------------------------------
(* The file system the session runs on *)

AbsHome == resolve(join(entryPointDir, Home))
AbsAbout == resolve(join(entryPointDir, About))
Footer == Path(TRUE, resolveDir(componentsDir), "footer", "tsx")
Unused == Path(TRUE, resolveDir(componentsDir), "unused", "tsx")

\* home and about both import footer
SharedFooter ==
  (AbsHome :> {Footer}) @@ (AbsAbout :> {Footer}) @@ (Footer :> {}) @@ (Unused :> {})

\* home imports the entry point about, which imports footer
EntryImportsEntry ==
  (AbsHome :> {AbsAbout}) @@ (AbsAbout :> {Footer}) @@ (Footer :> {}) @@ (Unused :> {})

\* No worker process is looked at, and outputDir is empty
NoWorker == [pc |-> "none", finished |-> <<>>]

\* The entry points a worker is started for: the two of the project and a
\* second home in a subdirectory
BlogHome == Path(FALSE, <<"blog">>, "home", "tsx")

WorkerFiles == EntryRel \cup {BlogHome}

AbsBlogHome == resolve(join(entryPointDir, BlogHome))

\* home and blog/home import nothing, about alone imports footer
NestedHome ==
  (AbsHome :> {}) @@ (AbsBlogHome :> {}) @@ (AbsAbout :> {Footer})
    @@ (Footer :> {}) @@ (Unused :> {})

ImportWorlds == {SharedFooter, EntryImportsEntry, NestedHome}

\* config.templateExtension: not set, or set
TemplateExtensions == {None, Some(".php")}

\* config.templateExtension || '.html'
outputExtension(templateExtension) ==
  IF templateExtension = None THEN ".html" ELSE templateExtension[1]

\* A file under outputDir or templateDir: its directory and its base name,
\* the base name being the name followed by the extension

\* An output path that keeps the base name and drops the directory
outputPathFlat(filePath, templateExtension) ==
  [dir |-> <<>>, base |-> <<filePath.name, outputExtension(templateExtension)>>]

\* outputPath = join(dir, `${name}${outputExtension}`), dir and name being
\* those of parse(filePath)
outputPath(filePath, templateExtension) ==
  [dir |-> filePath.dir,
   base |-> <<filePath.name, outputExtension(templateExtension)>>]

\* absoluteOutputPath = join(config.outputDir, outputPath)
absoluteOutputPath(filePath, templateExtension) ==
  join(outputDir, outputPath(filePath, templateExtension))

\* templatePath = join(config.templateDir, outputPath)
templatePath(filePath, templateExtension) ==
  join(templateDir, outputPath(filePath, templateExtension))

\* defaultTemplatePath = join(config.templateDir, config.defaultTemplate)
defaultTemplatePath == join(templateDir, [dir |-> <<>>, base |-> <<"default", ".html">>])

\* The files one of the workers can write
OutputPaths ==
  {absoluteOutputPath(f, x) : f \in WorkerFiles, x \in TemplateExtensions}

NoOutputFiles == [p \in OutputPaths |-> None]

\* new Renderer(config): no process, renderFiles and stop() not called
Processes == 1..MaxFiles

NoRenderer ==
  [filePaths |-> <<>>, maxConcurrent |-> 0, chunk |-> 0, returned |-> FALSE,
   process |-> [p \in Processes |-> "none"],
   signals |-> [p \in Processes |-> <<>>],
   results |-> [p \in Processes |-> None],
   activeProcesses |-> {},
   stop |-> [state |-> "none", shutdownPromises |-> <<>>, timeout |-> {}]]

NoWatcher ==
  [open |-> FALSE, closing |-> FALSE,
   dependencyGraph |-> <<>>, reverseDependencyGraph |-> <<>>,
   watched |-> {}]

----------------------------------------------------------------------------
(* One run of the command *)

Init ==
  /\ cli = [pc |-> "init", files |-> <<>>, watch |-> FALSE, exitCode |-> None,
            configResult |-> None, entryPoints |-> None, liveReload |-> FALSE]
  /\ config = NoConfig
  /\ batches = <<>>
  /\ watcher = NoWatcher
  /\ handlers = <<>>
  /\ imports = SharedFooter
  /\ cpus \in 0..MaxCpus
  /\ log = <<>>
  /\ liveReloadServer = NoLiveReloadServer
  /\ shutdown = NoShutdown
  /\ worker = NoWorker
  /\ renderer = NoRenderer
  /\ outputFiles = NoOutputFiles

\* One batch for the first render and one for every change event
BatchIds == 1..(MaxEvents + 1)

Next ==
  \/ \E files \in SeqsUpTo(ArgFiles, MaxFiles), watch \in BOOLEAN :
       RenderAction(files, watch)
  \/ \E configPath \in ConfigPaths, file \in ConfigFileStates \ {"valid"} :
       ConfigLoadFailed(configPath, file)
  \/ \E cfg \in Configs : ConfigLoaded(cfg)
  \/ \E found \in Discoveries : FindEntryPoints(found)
  \/ \E k \in BatchIds : RenderActionContinue(k)
  \/ \E k \in BatchIds : PLimitTick(k)
  \/ \E k \in BatchIds, i \in 1..MaxFiles, e \in Endings : WorkerEnd(k, i, e)
  \/ \E k \in BatchIds, i \in 1..MaxFiles : WorkerHang(k, i)

Spec == Init /\ [][Next]_vars

\* The event loop runs every microtask and every continuation, and the
\* operating system delivers the end of every worker that ends.  A hung
\* worker has no end to deliver.
Fairness ==
  /\ \A k \in BatchIds :
       /\ WF_vars(PLimitTick(k))
       /\ WF_vars(RenderActionContinue(k))
       /\ \A i \in 1..MaxFiles :
            WF_vars(\E e \in Endings : WorkerEnd(k, i, e))
  /\ WF_vars(\/ \E configPath \in ConfigPaths, file \in ConfigFileStates :
                    ConfigLoadFailed(configPath, file)
             \/ \E cfg \in Configs : ConfigLoaded(cfg))
  /\ WF_vars(\E found \in Discoveries : FindEntryPoints(found))

FairSpec == Spec /\ Fairness

----------------------------------------------------------------------------
(* Change watcher: FileWatcher                                             *)
(*                                                                         *)
(* A Map is a function on its keys, a Set a set.                           *)

\* map.get(k) || new Set()
get(m, k) == IF k \in DOMAIN m THEN m[k] ELSE {}

\* map.set(k, v)
set(m, k, v) == [x \in DOMAIN m \cup {k} |-> IF x = k THEN v ELSE m[x]]

\* Array.from(set): the elements in one fixed order
RECURSIVE ArrayFrom(_)
ArrayFrom(S) ==
  IF S = {} THEN <<>>
  ELSE LET x == CHOOSE y \in S : TRUE IN <<x>> \o ArrayFrom(S \ {x})

\* The files dependencyTree visits from the files in S: S and all they
\* import, directly or not
RECURSIVE closure(_, _)
closure(imp, S) ==
  LET more == S \cup UNION {imp[f] : f \in S \cap DOMAIN imp}
  IN IF more = S THEN S ELSE closure(imp, more)

\* dependencyTree({filename}): the keys of the tree, the root among them
dependencyTree(imp, filename) == closure(imp, {filename})

\* glob('**/*.{exts}', {cwd: entryPointDir, absolute: true})
globEntryPoints(imp) ==
  {f \in DOMAIN imp :
     startsWith(f, resolveDir(entryPointDir)) /\ f.ext \in fileExtensions}

EmptyGraph == [dependencyGraph |-> <<>>, reverseDependencyGraph |-> <<>>]

\* An addDependencies that does not count a file among its own dependents
addDependenciesNoSelf(g, file, deps) ==
  [dependencyGraph |-> set(g.dependencyGraph, file, deps),
   reverseDependencyGraph |->
     [d \in DOMAIN g.reverseDependencyGraph \cup (deps \ {file}) |->
        IF d \in deps THEN get(g.reverseDependencyGraph, d) \cup {file}
                      ELSE g.reverseDependencyGraph[d]]]

\* addDependencies(file, deps): every key of the tree becomes a dependency
\* of file and gets file as a dependent
addDependencies(g, file, deps) ==
  [dependencyGraph |-> set(g.dependencyGraph, file, deps),
   reverseDependencyGraph |->
     [d \in DOMAIN g.reverseDependencyGraph \cup deps |->
        IF d \in deps THEN get(g.reverseDependencyGraph, d) \cup {file}
                      ELSE g.reverseDependencyGraph[d]]]

\* A construction that the first failing entry point ends, with both maps
\* left cleared
RECURSIVE forEachEntryPointAbort(_, _, _, _)
forEachEntryPointAbort(g, todo, imp, failing) ==
  IF todo = {} THEN g
  ELSE LET e == CHOOSE x \in todo : TRUE
       IN IF e \in failing
            THEN EmptyGraph
            ELSE forEachEntryPointAbort(addDependencies(g, e, dependencyTree(imp, e)),
                                        todo \ {e}, imp, failing)

\* The forEach of buildDependencyGraph over the entry points left to do;
\* dependencyTree throws for the entry points in failing, which are skipped
RECURSIVE forEachEntryPoint(_, _, _, _)
forEachEntryPoint(g, todo, imp, failing) ==
  IF todo = {} THEN g
  ELSE LET e == CHOOSE x \in todo : TRUE
           g1 == IF e \in failing THEN g
                 ELSE addDependencies(g, e, dependencyTree(imp, e))
       IN forEachEntryPoint(g1, todo \ {e}, imp, failing)

\* A buildDependencyGraph without the three clear() calls: the maps of the
\* watcher are filled on top of what they hold
buildDependencyGraphNoClear(entryPoints, imp, failing) ==
  forEachEntryPoint([dependencyGraph |-> watcher.dependencyGraph,
                     reverseDependencyGraph |-> watcher.reverseDependencyGraph],
                    entryPoints, imp, failing)

\* buildDependencyGraph(entryPoints): both maps are cleared and filled again
buildDependencyGraph(entryPoints, imp, failing) ==
  forEachEntryPoint(EmptyGraph, entryPoints, imp, failing)

\* findAffected of getAffectedEntryPoints: the files reached from the
\* changed file along the dependents
RECURSIVE findAffected(_, _)
findAffected(reverse, visited) ==
  LET more == visited \cup UNION {get(reverse, f) : f \in visited}
  IN IF more = visited THEN visited ELSE findAffected(reverse, more)

\* getAffectedEntryPoints(changedFile): the dependents met on the way that
\* lie under entryPointDir
getAffectedEntryPoints(reverse, changedFile) ==
  {d \in UNION {get(reverse, f) : f \in findAffected(reverse, {changedFile})} :
     startsWith(d, resolveDir(entryPointDir))}

\* getWatchDirectories plus the directories start() adds: what chokidar
\* watches, resolved
dirname(f) == f.dir

getWatchDirectories(g) ==
  {dirname(f) : f \in DOMAIN g.dependencyGraph \cup DOMAIN g.reverseDependencyGraph
                      \cup UNION {g.dependencyGraph[e] : e \in DOMAIN g.dependencyGraph}}

watchPatterns(g) ==
  getWatchDirectories(g) \cup {resolveDir(entryPointDir), resolveDir(templateDir)}

\* What handleFileChange decides before its first await: nothing to do, a
\* batch to hand to onFileChange, or the glob of the template branch
Ignore == [branch |-> "ignore", files |-> <<>>]

\* A classification that asks the graph for the dependents of a changed
\* entry point and renders them with it
classifyByGraph(filePath, reverse) ==
  LET absolutePath == resolve(filePath)
      entryDir == resolveDir(entryPointDir)
      affected == {d \in getAffectedEntryPoints(reverse, absolutePath) \cup {absolutePath} :
                     startsWith(d, entryDir)}
  IN IF filePath.ext \notin fileExtensions
       THEN IF startsWith(absolutePath, resolveDir(templateDir))
              THEN [branch |-> "template", files |-> <<>>]
              ELSE Ignore
       ELSE IF startsWith(absolutePath, entryDir)
         THEN [branch |-> "entryPoint",
               files |-> ArrayFrom({substring(d, entryDir) : d \in affected})]
         ELSE IF getAffectedEntryPoints(reverse, absolutePath) # {}
           THEN [branch |-> "dependency",
                 files |-> ArrayFrom({substring(d, entryDir) :
                                        d \in getAffectedEntryPoints(reverse, absolutePath)})]
           ELSE Ignore

classify(filePath, reverse) ==
  LET absolutePath == resolve(filePath)
      entryDir == resolveDir(entryPointDir)
  IN IF startsWith(absolutePath, entryDir)
       THEN IF filePath.ext \notin fileExtensions
              THEN Ignore
              ELSE [branch |-> "entryPoint",
                    files |-> <<substring(absolutePath, entryDir)>>]
       ELSE IF startsWith(absolutePath, resolveDir(templateDir))
         THEN [branch |-> "template", files |-> <<>>]
         ELSE IF filePath.ext \notin fileExtensions
           THEN Ignore
           ELSE LET affectedEntryPoints ==
                      ArrayFrom(getAffectedEntryPoints(reverse, absolutePath))
                    mapped ==
                      [i \in DOMAIN affectedEntryPoints |->
                         IF startsWith(affectedEntryPoints[i], entryDir)
                           THEN substring(affectedEntryPoints[i], entryDir)
                           ELSE affectedEntryPoints[i]]
                    relativePaths == SelectSeq(mapped, LAMBDA q : ~q.abs)
                IN IF Len(relativePaths) > 0
                     THEN [branch |-> "dependency", files |-> relativePaths]
                     ELSE Ignore

\* A glob by name that looks at entryPointDir itself and at no directory
\* below it
globByNameTopLevel(imp, fileName) ==
  ArrayFrom({substring(f, resolveDir(entryPointDir)) :
               f \in {e \in globEntryPoints(imp) :
                        e.name = fileName /\ e.dir = resolveDir(entryPointDir)}})

\* glob('**/<name>.{exts}', {cwd: entryPointDir, absolute: false})
globByName(imp, fileName) ==
  ArrayFrom({substring(f, resolveDir(entryPointDir)) :
               f \in {e \in globEntryPoints(imp) : e.name = fileName}})

\* A call of handleFileChange
Handler(action, filePath, pc, branch, dispatched) ==
  [action |-> action, filePath |-> filePath, pc |-> pc, branch |-> branch,
   dispatched |-> dispatched, caught |-> FALSE]

\* A handleFileChange without its try/catch: the error rejects its promise
catchRethrow(handler) == [handler EXCEPT !.pc = "rejected"]

\* catch (error) of handleFileChange: the error is printed and the call ends
catch(handler) == [handler EXCEPT !.pc = "done", !.caught = TRUE]

\* How an await on glob ends
GlobOutcomes == {"found", "error"}

\* Paths chokidar reports, relative to cwd
OnDisk(f) == [f EXCEPT !.abs = FALSE, !.dir = SubSeq(f.dir, Len(cwd) + 1, Len(f.dir))]

TemplateHome == Path(FALSE, templateDir, "home", "html")
Theme == Path(FALSE, componentsDir, "theme", "css")

\* A template that no entry point is named after
TemplateLayout == Path(FALSE, templateDir, "layout", "html")

EventPaths ==
  {OnDisk(AbsAbout), OnDisk(Footer), OnDisk(Unused), TemplateHome,
   TemplateLayout, Theme}

WatcherEventTypes == {"add", "change", "unlink"}

\* dependencyTree can throw for an entry point; that entry point is skipped
FailingSets == {{}, {AbsAbout}}

\* startWatchMode up to its first await: the live reload server when it is
\* enabled, new FileWatcher, watcher.start(), which waits for the glob of
\* buildInitialDependencyGraph
StartWatchMode ==
  /\ cli.pc = "startWatchMode"
  /\ cli' = [cli EXCEPT !.pc = "watcher.start"]
  /\ liveReloadServer' = IF cli.liveReload THEN startLiveReload
                                            ELSE NoLiveReloadServer
  /\ UNCHANGED <<shutdown, worker, outputFiles, renderer>>
  /\ UNCHANGED <<config, batches, watcher, handlers, imports, cpus, log>>

\* The glob of watcher.start() returned: the graph is built, chokidar is
\* started on the watch directories, startWatchMode installs the SIGINT
\* handler and returns
WatcherStart(failing) ==
  /\ Alive
  /\ Quiescent
  /\ cli.pc = "watcher.start"
  /\ shutdown' = [shutdown EXCEPT !.installed = TRUE]
  /\ LET g == buildDependencyGraph(globEntryPoints(imports), imports, failing)
     IN watcher' = [open |-> TRUE,
                    closing |-> FALSE,
                    dependencyGraph |-> g.dependencyGraph,
                    reverseDependencyGraph |-> g.reverseDependencyGraph,
                    watched |-> watchPatterns(g)]
  /\ cli' = [cli EXCEPT !.pc = "watching"]
  /\ UNCHANGED <<liveReloadServer, worker, outputFiles, renderer>>
  /\ UNCHANGED <<config, batches, handlers, imports, cpus, log>>

\* onFileChange(files): the callback of startWatchMode up to its await,
\* that is the call of renderWithConcurrency
onFileChange(files, h) ==
  Append(batches, renderWithConcurrency(files, config, cpus, ByHandler(h)))

\* A handleFileChange that has nothing to do for a file that is gone
HandleFileChangeSkipUnlink(action, filePath) ==
  /\ Alive
  /\ Quiescent
  /\ watcher.open
  /\ Len(handlers) < MaxEvents
  /\ \E d \in watcher.watched : startsWith(resolve(filePath), d)
  /\ LET c == IF action = "unlink" THEN Ignore
              ELSE classify(filePath, watcher.reverseDependencyGraph)
         h == Len(handlers) + 1
     IN CASE c.branch = "ignore" ->
               /\ handlers' = Append(handlers,
                    Handler(action, filePath, "done", c.branch, None))
               /\ batches' = batches
          [] c.branch = "template" ->
               /\ handlers' = Append(handlers,
                    Handler(action, filePath, "glob", c.branch, None))
               /\ batches' = batches
          [] OTHER ->
               /\ handlers' = Append(handlers,
                    Handler(action, filePath, "onFileChange", c.branch, Some(c.files)))
               /\ batches' = onFileChange(c.files, h)
  /\ UNCHANGED <<liveReloadServer, shutdown, worker, outputFiles, renderer>>
  /\ UNCHANGED <<cli, config, watcher, imports, cpus, log>>

\* chokidar reports action for filePath: handleFileChange up to its first
\* await
HandleFileChange(action, filePath) ==
  /\ Alive
  /\ Quiescent
  /\ watcher.open
  /\ Len(handlers) < MaxEvents
  /\ \E d \in watcher.watched : startsWith(resolve(filePath), d)
  /\ LET c == classify(filePath, watcher.reverseDependencyGraph)
         h == Len(handlers) + 1
     IN CASE c.branch = "ignore" ->
               /\ handlers' = Append(handlers,
                    Handler(action, filePath, "done", c.branch, None))
               /\ batches' = batches
          [] c.branch = "template" ->
               /\ handlers' = Append(handlers,
                    Handler(action, filePath, "glob", c.branch, None))
               /\ batches' = batches
          [] OTHER ->
               /\ handlers' = Append(handlers,
                    Handler(action, filePath, "onFileChange", c.branch, Some(c.files)))
               /\ batches' = onFileChange(c.files, h)
  /\ UNCHANGED <<liveReloadServer, shutdown, worker, outputFiles, renderer>>
  /\ UNCHANGED <<cli, config, watcher, imports, cpus, log>>

\* The glob of the template branch returned, or failed
TemplateGlob(h, outcome) ==
  /\ Alive
  /\ Quiescent
  /\ h \in DOMAIN handlers
  /\ handlers[h].pc = "glob"
  /\ LET matchingEntryPoints == globByName(imports, handlers[h].filePath.name)
     IN IF outcome = "error"
          THEN /\ handlers' = [handlers EXCEPT ![h] = catch(handlers[h])]
               /\ batches' = batches
          ELSE IF Len(matchingEntryPoints) > 0
          THEN /\ handlers' = [handlers EXCEPT ![h].pc = "onFileChange",
                                 ![h].dispatched = Some(matchingEntryPoints)]
               /\ batches' = onFileChange(matchingEntryPoints, h)
          ELSE /\ handlers' = [handlers EXCEPT ![h].pc = "done"]
               /\ batches' = batches
  /\ UNCHANGED <<liveReloadServer, shutdown, worker, outputFiles, renderer>>
  /\ UNCHANGED <<cli, config, watcher, imports, cpus, log>>

\* The batch of a change callback settled: reportResults, broadcastReload,
\* the callback returns and handleFileChange goes on to
\* rebuildDependencyGraph (not in the template branch); a rejection ends in
\* the catch of handleFileChange
OnFileChangeContinue(k) ==
  /\ Alive
  /\ k \in DOMAIN batches
  /\ batches[k].owner.by = "handleFileChange"
  /\ batches[k].ticks = 0
  /\ batches[k].all.state # "pending"
  /\ ~batches[k].consumed
  /\ batches' = [batches EXCEPT ![k] = released(batches[k])]
  /\ LET h == batches[k].owner.handler
     IN IF batches[k].all.state = "rejected"
          THEN /\ log' = log
               /\ liveReloadServer' = liveReloadServer
               /\ handlers' = [handlers EXCEPT ![h] = catch(handlers[h])]
          ELSE /\ log' = Append(log, reportResults(batches[k].all.value))
               /\ liveReloadServer' =
                    broadcastReload(liveReloadServer, k,
                                    reportResults(batches[k].all.value).failed)
               /\ handlers' = [handlers EXCEPT ![h].pc =
                    IF handlers[h].branch = "template"
                      THEN "done" ELSE "rebuildDependencyGraph"]
  /\ UNCHANGED <<shutdown, worker, outputFiles, renderer>>
  /\ UNCHANGED <<cli, config, watcher, imports, cpus>>

\* A rebuild in two steps: the maps are cleared in one, and filled in a
\* later one
RebuildDependencyGraphInSteps(h, failing, outcome) ==
  /\ Alive
  /\ Quiescent
  /\ h \in DOMAIN handlers
  /\ handlers[h].pc = "rebuildDependencyGraph"
  /\ LET g == buildDependencyGraph(globEntryPoints(imports), imports, failing)
     IN IF outcome = "error"
          THEN /\ watcher' = watcher
               /\ handlers' = [handlers EXCEPT ![h] = catch(handlers[h])]
          ELSE IF DOMAIN watcher.dependencyGraph # {}
          THEN /\ watcher' = [watcher EXCEPT
                                !.dependencyGraph = EmptyGraph.dependencyGraph,
                                !.reverseDependencyGraph = EmptyGraph.reverseDependencyGraph]
               /\ handlers' = handlers
          ELSE /\ watcher' = [watcher EXCEPT
                                !.dependencyGraph = g.dependencyGraph,
                                !.reverseDependencyGraph = g.reverseDependencyGraph]
               /\ handlers' = [handlers EXCEPT ![h].pc = "done"]
  /\ UNCHANGED <<liveReloadServer, shutdown, worker, outputFiles, renderer>>
  /\ UNCHANGED <<cli, config, batches, imports, cpus, log>>

\* A rebuild that hands the directories of the new graph to chokidar
RebuildDependencyGraphAndWatch(h, failing, outcome) ==
  /\ Alive
  /\ Quiescent
  /\ h \in DOMAIN handlers
  /\ handlers[h].pc = "rebuildDependencyGraph"
  /\ LET g == buildDependencyGraph(globEntryPoints(imports), imports, failing)
     IN IF outcome = "error"
          THEN /\ watcher' = watcher
               /\ handlers' = [handlers EXCEPT ![h] = catch(handlers[h])]
          ELSE /\ watcher' = [watcher EXCEPT
                                !.dependencyGraph = g.dependencyGraph,
                                !.reverseDependencyGraph = g.reverseDependencyGraph,
                                !.watched = watchPatterns(g)]
               /\ handlers' = [handlers EXCEPT ![h].pc = "done"]
  /\ UNCHANGED <<liveReloadServer, shutdown, worker, outputFiles, renderer>>
  /\ UNCHANGED <<cli, config, batches, imports, cpus, log>>

\* The glob of rebuildDependencyGraph returned: buildDependencyGraph; or
\* it failed, before the graphs were touched
RebuildDependencyGraph(h, failing, outcome) ==
  /\ Alive
  /\ Quiescent
  /\ h \in DOMAIN handlers
  /\ handlers[h].pc = "rebuildDependencyGraph"
  /\ LET g == buildDependencyGraph(globEntryPoints(imports), imports, failing)
     IN IF outcome = "error"
          THEN /\ watcher' = watcher
               /\ handlers' = [handlers EXCEPT ![h] = catch(handlers[h])]
          ELSE /\ watcher' = [watcher EXCEPT
                                !.dependencyGraph = g.dependencyGraph,
                                !.reverseDependencyGraph = g.reverseDependencyGraph]
               /\ handlers' = [handlers EXCEPT ![h].pc = "done"]
  /\ UNCHANGED <<liveReloadServer, shutdown, worker, outputFiles, renderer>>
  /\ UNCHANGED <<cli, config, batches, imports, cpus, log>>

\* How the workers of a watch session end: the worker's own two exits
WatchEndings == {ExitOk, ExitError}

\* A watch session, from the call of startWatchMode; batches and log hold
\* what the session itself has rendered and reported
WatchInit ==
  /\ config \in Configs
  /\ cli = [pc |-> "startWatchMode", files |-> <<>>, watch |-> TRUE, exitCode |-> None,
            configResult |-> Some(loadConfig(<<>>, "valid", config)),
            entryPoints |-> None, liveReload |-> FALSE]
  /\ batches = <<>>
  /\ watcher = NoWatcher
  /\ handlers = <<>>
  /\ imports \in ImportWorlds
  /\ cpus = MaxCpus
  /\ log = <<>>
  /\ liveReloadServer = NoLiveReloadServer
  /\ shutdown = NoShutdown
  /\ worker = NoWorker
  /\ renderer = NoRenderer
  /\ outputFiles = NoOutputFiles

WatchNext ==
  \/ StartWatchMode
  \/ \E failing \in FailingSets : WatcherStart(failing)
  \/ \E action \in WatcherEventTypes, filePath \in EventPaths :
       HandleFileChange(action, filePath)
  \/ \E h \in 1..MaxEvents, outcome \in GlobOutcomes : TemplateGlob(h, outcome)
  \/ \E k \in BatchIds : OnFileChangeContinue(k)
  \/ \E h \in 1..MaxEvents, failing \in FailingSets, outcome \in GlobOutcomes :
       RebuildDependencyGraph(h, failing, outcome)
  \/ \E k \in BatchIds : PLimitTick(k)
  \/ \E k \in BatchIds, i \in 1..MaxFiles, e \in WatchEndings : WorkerEnd(k, i, e)

WatchSpec == WatchInit /\ [][WatchNext]_vars

\* A watch session with live reload, browser sockets and SIGINT, on the
\* project where home and about import footer, with one render at a time
SessionEventPaths == {OnDisk(Footer), TemplateHome}

SessionInit ==
  /\ config = [loaded |-> TRUE, maxConcurrentRenders |-> Number(1)]
  /\ cli \in [pc : {"startWatchMode"}, files : {<<>>}, watch : {TRUE},
               exitCode : {None},
               configResult : {Some(loadConfig(<<>>, "valid", config))},
               entryPoints : {None}, liveReload : BOOLEAN]
  /\ batches = <<>>
  /\ watcher = NoWatcher
  /\ handlers = <<>>
  /\ imports = SharedFooter
  /\ cpus = MaxCpus
  /\ log = <<>>
  /\ liveReloadServer = NoLiveReloadServer
  /\ shutdown = NoShutdown
  /\ worker = NoWorker
  /\ renderer = NoRenderer
  /\ outputFiles = NoOutputFiles

SessionNext ==
  \/ StartWatchMode
  \/ WatcherStart({})
  \/ \E filePath \in SessionEventPaths : HandleFileChange("change", filePath)
  \/ \E h \in 1..MaxEvents, outcome \in GlobOutcomes : TemplateGlob(h, outcome)
  \/ \E k \in BatchIds : OnFileChangeContinue(k)
  \/ \E h \in 1..MaxEvents, outcome \in GlobOutcomes :
       RebuildDependencyGraph(h, {}, outcome)
  \/ \E k \in BatchIds : PLimitTick(k)
  \/ \E k \in BatchIds, i \in 1..MaxFiles, e \in WatchEndings : WorkerEnd(k, i, e)
  \/ \E c \in Clients : Connection(c)
  \/ \E c \in Clients : SocketClosing(c)
  \/ \E c \in Clients : SocketClose(c)
  \/ Sigint
  \/ SigintDefault
  \/ WatcherClosed
  \/ LiveReloadClosed
  \/ ShutdownExit

SessionSpec == SessionInit /\ [][SessionNext]_vars

----------------------------------------------------------------------------
(* Properties of the render scheduler and the render executor *)

Tasks(b) == DOMAIN b.task

Settled(b, i) == b.task[i].st = "settled"

\* Task i of b ended as a failure: a failed outcome, or a rejected promise
Failed(b, i) ==
  /\ Settled(b, i)
  /\ \/ b.task[i].promise.state = "rejected"
     \/ /\ b.task[i].promise.state = "fulfilled"
        /\ ~b.task[i].promise.value.success

\* C1: during one call of renderWithConcurrency the number of renderFile
\* executions that have started and have no outcome yet never exceeds the
\* effective limit: the configured maxConcurrentRenders, or max(1, CPU
\* count) under 'auto'
C1_InFlightWithinLimit ==
  \A k \in DOMAIN batches :
    LET b == batches[k]
    IN /\ Cardinality(InFlight(b)) <= b.maxConcurrent
       /\ b.maxConcurrent >= 1
       /\ config.maxConcurrentRenders.kind = "number"
            => Cardinality(InFlight(b)) <= config.maxConcurrentRenders.value
       /\ config.maxConcurrentRenders.kind = "auto"
            => Cardinality(InFlight(b)) <= Max(1, cpus)

\* A batch larger than its limit with every slot taken and a task waiting
C1_Witness ==
  \E k \in DOMAIN batches :
    /\ Len(batches[k].files) > batches[k].maxConcurrent
    /\ Cardinality(InFlight(batches[k])) = batches[k].maxConcurrent
    /\ Len(batches[k].queue) > 0

\* C3: a batch never rejects, and when it returns the returned sequence has
\* the length of the input and its i-th element is the one outcome of
\* files[i], whose renderFile ran exactly once
C3_OneOutcomePerPath ==
  \A k \in DOMAIN batches :
    LET b == batches[k]
    IN /\ b.all.state # "rejected"
       /\ b.all.state = "fulfilled" =>
            /\ Len(b.all.value) = Len(b.files)
            /\ \A i \in DOMAIN b.files :
                 /\ b.task[i].runs = 1
                 /\ b.all.value[i].success
                      => b.all.value[i].outputPath = join(outputDir, b.files[i])
                 /\ ~b.all.value[i].success
                      => b.all.value[i].error.filePath = b.files[i]

\* A returned batch of several files, one succeeded and one failed
C3_Witness ==
  \E k \in DOMAIN batches :
    /\ batches[k].all.state = "fulfilled"
    /\ Len(batches[k].files) >= 2
    /\ \E i, j \in DOMAIN batches[k].all.value :
         batches[k].all.value[i].success /\ ~batches[k].all.value[j].success

\* C4: once the task of A has failed, the batch is not rejected, a sibling
\* B that is still queued stays in the queue and the slot of A is free for
\* it, and the outcome of a sibling B that has ended is decided by the end
\* of B's own worker alone
C4_FailureLeavesSiblings ==
  \A k \in DOMAIN batches :
    LET b == batches[k]
    IN \A i \in Tasks(b) : Failed(b, i) =>
         /\ b.all.state # "rejected"
         /\ b.ticks = 0 /\ Len(b.queue) > 0
              => Cardinality(InFlight(b)) = b.maxConcurrent
         /\ \A j \in Tasks(b) \ {i} :
              /\ b.task[j].st = "queued" => j \in Range(b.queue)
              /\ Settled(b, j) =>
                   /\ b.task[j].promise.state = "fulfilled"
                   /\ b.task[j].promise.value.success
                        <=> b.task[j].ending = Some(ExitOk)

\* A failed and its sibling B succeeded in the same batch
C4_Witness ==
  \E k \in DOMAIN batches :
    \E i, j \in Tasks(batches[k]) :
      /\ i # j
      /\ Failed(batches[k], i)
      /\ Settled(batches[k], j)
      /\ batches[k].task[j].promise.state = "fulfilled"
      /\ batches[k].task[j].promise.value.success

\* C5: however the worker ends, renderFile resolves to a RenderResult:
\* success for exit code 0 only, otherwise a failure whose RenderError
\* carries the file path of the task
C5_RenderFileNeverRejects ==
  \A k \in DOMAIN batches :
    LET b == batches[k]
    IN \A i \in Tasks(b) : Settled(b, i) =>
         /\ b.task[i].promise.state = "fulfilled"
         /\ b.task[i].promise.value.success <=> b.task[i].ending = Some(ExitOk)
         /\ ~b.task[i].promise.value.success
              => /\ b.task[i].promise.value.error.filePath = b.files[i]
                 /\ b.task[i].promise.value.error.code
                      \in {"PROCESS_EXIT_ERROR", "PROCESS_SPAWN_ERROR"}

\* Every way a worker can end has been seen in one batch
C5_Witness ==
  \E k \in DOMAIN batches :
    /\ \E i \in Tasks(batches[k]) : batches[k].task[i].ending = Some(Killed)
    /\ \E i \in Tasks(batches[k]) : batches[k].task[i].ending = Some(SpawnFailed)
    /\ \E i \in Tasks(batches[k]) : batches[k].task[i].ending = Some(ExitError)

\* C34: the sequence a batch returns has, at every index i, the value that
\* the renderFile call for files[i] resolved to: a success exactly when the
\* worker started for files[i] ended with exit code 0, with the output path
\* of files[i], and otherwise a failure that names files[i]
C34_OutcomesInInputOrder ==
  \A k \in DOMAIN batches :
    LET b == batches[k]
    IN b.all.state = "fulfilled" =>
         /\ DOMAIN b.all.value = DOMAIN b.files
         /\ \A i \in DOMAIN b.files :
              /\ b.all.value[i] = b.task[i].promise.value
              /\ b.all.value[i].success <=> b.task[i].ending = Some(ExitOk)
              /\ IF b.all.value[i].success
                   THEN b.all.value[i].data = join(outputDir, b.files[i])
                   ELSE b.all.value[i].error.filePath = b.files[i]

\* A returned batch for home and about, in this order, in which home
\* failed and about succeeded
C34_Witness ==
  \E k \in DOMAIN batches :
    /\ batches[k].all.state = "fulfilled"
    /\ batches[k].files = <<Home, About>>
    /\ batches[k].maxConcurrent = 2
    /\ ~batches[k].all.value[1].success
    /\ batches[k].all.value[2].success

\* C35: a failed outcome has the code PROCESS_EXIT_ERROR exactly when the
\* worker was started and ended with a non-zero exit code or by a signal,
\* and the code PROCESS_SPAWN_ERROR exactly when the worker could not be
\* started
C35_ErrorCodeTellsHowWorkerEnded ==
  \A k \in DOMAIN batches :
    LET b == batches[k]
    IN \A i \in Tasks(b) :
         (/\ Settled(b, i)
          /\ b.task[i].promise.state = "fulfilled"
          /\ ~b.task[i].promise.value.success)
         => LET e == b.task[i].ending[1]
                code == b.task[i].promise.value.error.code
            IN /\ code = "PROCESS_EXIT_ERROR"
                    <=> (e.spawned /\ (e.signal # None \/ e.exitCode \notin {None, Some(0)}))
               /\ code = "PROCESS_SPAWN_ERROR" <=> ~e.spawned

\* Batch k was submitted / has returned with all its outcomes
Submitted(k) == k \in DOMAIN batches

Returned(k) == k \in DOMAIN batches /\ batches[k].all.state = "fulfilled"

\* The worker of task i of batch k hangs / the task has a failed outcome
Hung(k, i) ==
  /\ k \in DOMAIN batches
  /\ i \in Tasks(batches[k])
  /\ batches[k].task[i].st = "hung"

FailedOutcome(k, i) ==
  /\ k \in DOMAIN batches
  /\ i \in Tasks(batches[k])
  /\ Failed(batches[k], i)

\* C6: every batch that was submitted eventually returns with all outcomes
C6_BatchEventuallyReturns ==
  \A k \in BatchIds : [](Submitted(k) => <>Returned(k))

\* C7: a worker that hangs is terminated after a bounded time and its task
\* is reported as a failed outcome
C7_HangContained ==
  \A k \in BatchIds, i \in 1..MaxFiles : [](Hung(k, i) => <>FailedOutcome(k, i))

\* C10: in non-watch mode the exit code after a batch is 1 when an outcome
\* of the batch is failed and 0 only when every outcome succeeded
C10_ExitCodeReflectsBatch ==
  (cli.pc = "exited" /\ ~cli.watch /\ Len(log) > 0) =>
     /\ log[Len(log)].failed > 0 => cli.exitCode = Some(1)
     /\ cli.exitCode = Some(0) => log[Len(log)].failed = 0

\* handleConfigLoad has run and loadConfig did not give a configuration
ConfigLoadHasFailed ==
  /\ cli.configResult # None
  /\ ~(cli.configResult[1].state = "fulfilled" /\ cli.configResult[1].value.success)

\* C11: when the configuration cannot be loaded (file missing, unreadable,
\* invalid JSON or rejected by the schema) loadConfig returns a failure value
\* and does not throw, and the command has exited with code 1 with no render
\* task scheduled and no watcher started
C11_ConfigFailureExits ==
  ConfigLoadHasFailed =>
     /\ cli.configResult[1].state = "fulfilled"
     /\ cli.configResult[1].value.error.code \in ConfigErrorCodes
     /\ cli.pc = "exited"
     /\ cli.exitCode = Some(1)
     /\ batches = <<>>
     /\ handlers = <<>>
     /\ ~watcher.open
     /\ log = <<>>

\* The command has ended on a config file the schema rejects
C11_Witness ==
  /\ cli.configResult # None
  /\ cli.configResult[1].state = "fulfilled"
  /\ ~cli.configResult[1].value.success
  /\ cli.configResult[1].value.error.code = "CONFIG_VALIDATION_ERROR"
  /\ cli.pc = "exited"

\* C12: when no files are given and discovery finds no entry point, the run
\* is aborted before scheduling: no batch is handed to the scheduler, nothing
\* is reported and the command does not exit with code 0
C12_NoEntryPointsIsFatal ==
  (Len(cli.files) = 0 /\ cli.entryPoints = Some(<<>>)) =>
     /\ \A k \in DOMAIN batches : batches[k].owner # ByRenderAction
     /\ log = <<>>
     /\ cli.exitCode # Some(0)

----------------------------------------------------------------------------
(* Properties of the watch session *)

\* The render workers active at this moment, over all batches
ActiveWorkers ==
  {<<k, i>> \in BatchIds \X (1..MaxFiles) :
     k \in DOMAIN batches /\ i \in InFlight(batches[k])}

\* C2: over all batches in flight at the same time, the number of active
\* render workers never exceeds the configured concurrency limit
C2_TotalWithinLimit ==
  config # NoConfig =>
    Cardinality(ActiveWorkers) <= maxConcurrent(config, cpus)

\* The entry point a dispatched relative path stands for
EntryPointOf(relativePath) == resolve(join(entryPointDir, relativePath))

\* C8: when a change event arrives for a file f that is in the dependency
\* set of some entry point in the current graph, the batch handed to the
\* scheduler holds every entry point whose dependency set has f, each once,
\* and no entry point whose dependency set excludes f
C8_DependentsDispatchedOnce ==
  [][\A h \in 1..MaxEvents :
       (Len(handlers) = h - 1 /\ Len(handlers') = h) =>
         LET f == resolve(handlers'[h].filePath)
             dg == watcher.dependencyGraph
             dependents == {E \in DOMAIN dg : f \in dg[E]}
         IN dependents # {} =>
              /\ handlers'[h].dispatched # None
              /\ LET batch == handlers'[h].dispatched[1]
                 IN /\ \A E \in dependents :
                         Cardinality({i \in DOMAIN batch : EntryPointOf(batch[i]) = E}) = 1
                    /\ \A i \in DOMAIN batch : EntryPointOf(batch[i]) \in dependents
    ]_vars

\* C9: two notifications of the same kind for the same path never have
\* render tasks for the same entry point in flight at the same time
C9_NoDuplicateOverlap ==
  \A k1, k2 \in DOMAIN batches :
    (/\ k1 # k2
     /\ batches[k1].owner.by = "handleFileChange"
     /\ batches[k2].owner.by = "handleFileChange"
     /\ handlers[batches[k1].owner.handler].filePath
          = handlers[batches[k2].owner.handler].filePath
     /\ handlers[batches[k1].owner.handler].action
          = handlers[batches[k2].owner.handler].action)
    => ~\E i \in InFlight(batches[k1]), j \in InFlight(batches[k2]) :
           batches[k1].files[i] = batches[k2].files[j]

----------------------------------------------------------------------------
(* The worker process: main() of worker.ts, one step per action.  A        *)
(* template is the sequence of its elements; the text of a file is None    *)
(* when the file does not exist.                                           *)

Div(id) == [tag |-> "div", id |-> id, inner |-> <<>>]

\* mountInfo.rootElementId of the entry points
rootElementId == "root"

\* What a template file can hold: nothing, the root div, another div, both
TemplateTexts ==
  {<<>>, <<Div(rootElementId)>>, <<Div("sidebar")>>,
   <<Div("sidebar"), Div(rootElementId)>>}

\* readFile outcomes of the template: its text, or the error code
ReadOutcomes == {[error |-> "ENOENT"], [error |-> "EACCES"]}
                  \cup {[text |-> t] : t \in TemplateTexts}

TemplateEngines == {"html", "php", "liquid", "handlebars"}

Return(v) == [threw |-> FALSE, value |-> v]
Throw(message) == [threw |-> TRUE, message |-> message]

\* divRegex.test(template): the places of a div with the id
test(template, id) ==
  {i \in DOMAIN template : template[i].tag = "div" /\ template[i].id = id}

\* template.replace(divRegex, ...): the first match gets styles and content
replace(template, id, styles, content) ==
  LET i == CHOOSE j \in test(template, id) : \A m \in test(template, id) : j <= m
  IN [template EXCEPT ![i].inner = <<styles, content>>]

\* A merge that leaves the template as it is when the div is missing
mergeHTMLTemplateSkip(template, content, styles, mountInfo) ==
  IF template = <<>> THEN Throw(<<"Template content is required">>)
  ELSE IF content = "" THEN Throw(<<"Rendered content is required">>)
  ELSE IF mountInfo = "" THEN Throw(<<"Mount info with rootElementId is required">>)
  ELSE IF test(template, mountInfo) # {}
    THEN Return(replace(template, mountInfo, styles, content))
    ELSE Return(template)

\* mergeHTMLTemplate(context), mountInfo standing for mountInfo.rootElementId
mergeHTMLTemplate(template, content, styles, mountInfo) ==
  IF template = <<>> THEN Throw(<<"Template content is required">>)
  ELSE IF content = "" THEN Throw(<<"Rendered content is required">>)
  ELSE IF mountInfo = "" THEN Throw(<<"Mount info with rootElementId is required">>)
  ELSE IF test(template, mountInfo) # {}
    THEN Return(replace(template, mountInfo, styles, content))
    ELSE Throw(<<"Could not find div in template", mountInfo>>)

\* mergeLiquidTemplate(context)
mergeLiquidTemplate(template, content, styles, mountInfo) ==
  IF template = <<>> THEN Throw(<<"Template content is required">>)
  ELSE IF content = "" THEN Throw(<<"Rendered content is required">>)
  ELSE IF mountInfo = "" THEN Throw(<<"Mount info with rootElementId is required">>)
  ELSE IF test(template, mountInfo) # {}
    THEN Return(replace(template, mountInfo, styles, content))
    ELSE Throw(<<"No div with id found in template", mountInfo>>)

\* The PHP engine: the same replacement of the div
mergePHPTemplate(template, content, styles, mountInfo) ==
  IF test(template, mountInfo) # {}
    THEN Return(replace(template, mountInfo, styles, content))
    ELSE Throw(<<"No div with id found in template", mountInfo>>)

\* switch (config.templateEngine) of main
mergeWithEngine(engine, template, content, styles, mountInfo) ==
  CASE engine = "liquid" -> mergeLiquidTemplate(template, content, styles, mountInfo)
    [] engine = "php" -> mergePHPTemplate(template, content, styles, mountInfo)
    [] engine = "html" -> mergeHTMLTemplate(template, content, styles, mountInfo)
    [] OTHER -> Throw(<<"Unknown template engine type", engine>>)

\* exitWithError(message, filePath, cause): stderr and process.exit(1)
exitWithError(w, message, cause) ==
  [w EXCEPT !.pc = "exited", !.exitCode = Some(1),
            !.stderr = <<message, w.filePath>> \o cause]

\* What renderFile makes of a worker that has exited
outcomeOf(w) == renderFile(w.filePath, Ending(TRUE, w.exitCode, None)).value

\* What is kept of a worker that has exited: the first line of its stderr
\* (none after a success) and the error code of its outcome
summary(w) ==
  [message |-> IF w.stderr = <<>> THEN None ELSE Some(w.stderr[1]),
   code |-> IF outcomeOf(w).success THEN None ELSE Some(outcomeOf(w).error.code)]

\* node worker.js filePath configJson: main() up to the load of the module
WorkerMain(filePath, templateEngine, templateExtension, defaultTemplate) ==
  /\ worker.pc \in {"none", "exited"}
  /\ Len(worker.finished) + (IF worker.pc = "exited" THEN 1 ELSE 0) < MaxRuns
  /\ worker' = [pc |-> "load",
                filePath |-> filePath,
                templateEngine |-> templateEngine,
                templateExtension |-> templateExtension,
                defaultTemplate |-> defaultTemplate,
                absoluteOutputPath |-> absoluteOutputPath(filePath, templateExtension),
                reads |-> <<>>,
                html |-> "", styles |-> "",
                template |-> None, finalHtml |-> None,
                exitCode |-> None, stderr |-> <<>>,
                finished |->
                  IF worker.pc = "exited"
                    THEN Append(worker.finished, summary(worker))
                    ELSE worker.finished]
  /\ UNCHANGED <<liveReloadServer, shutdown, outputFiles, renderer>>
  /\ UNCHANGED <<cli, config, batches, watcher, handlers, imports, cpus, log>>

\* requireFromCwd(absoluteInputPath)
LoadModule(loads) ==
  /\ worker.pc = "load"
  /\ worker' = IF loads THEN [worker EXCEPT !.pc = "extract"]
                         ELSE exitWithError(worker, "Failed to load module", <<"cause">>)
  /\ UNCHANGED <<liveReloadServer, shutdown, outputFiles, renderer>>
  /\ UNCHANGED <<cli, config, batches, watcher, handlers, imports, cpus, log>>

\* The export must be an object with node and rootElementId
ExtractMountInfo(valid) ==
  /\ worker.pc = "extract"
  /\ worker' = IF valid THEN [worker EXCEPT !.pc = "render"]
                         ELSE exitWithError(worker, "Invalid export", <<>>)
  /\ UNCHANGED <<liveReloadServer, shutdown, outputFiles, renderer>>
  /\ UNCHANGED <<cli, config, batches, watcher, handlers, imports, cpus, log>>

\* renderToStaticMarkup, with the style tags of styled-components if any
RenderComponent(rendered) ==
  /\ worker.pc = "render"
  /\ worker' =
       IF rendered = "throws"
         THEN exitWithError(worker, "Failed to render React component", <<"cause">>)
         ELSE [worker EXCEPT !.pc = "format",
                 !.html = IF rendered = "empty" THEN "" ELSE "markup",
                 !.styles = IF rendered = "styled" THEN "style" ELSE ""]
  /\ UNCHANGED <<liveReloadServer, shutdown, outputFiles, renderer>>
  /\ UNCHANGED <<cli, config, batches, watcher, handlers, imports, cpus, log>>

\* format(html, prettierOptions) unless prettierConfig is false
FormatWithPrettier(formats) ==
  /\ worker.pc = "format"
  /\ worker' = IF formats THEN [worker EXCEPT !.pc = "readTemplate"]
                           ELSE exitWithError(worker, "Prettier formatting failed", <<"cause">>)
  /\ UNCHANGED <<liveReloadServer, shutdown, outputFiles, renderer>>
  /\ UNCHANGED <<cli, config, batches, watcher, handlers, imports, cpus, log>>

\* What a readFile of the worker met: the path, and the text or the error
\* code
Read(path, read) ==
  [path |-> path,
   text |-> IF "text" \in DOMAIN read THEN Some(read.text) ELSE None,
   error |-> IF "text" \in DOMAIN read THEN None ELSE Some(read.error)]

\* A read of the template that gives up on ENOENT even when a default
\* template is configured
readTemplateNoDefault(w, read) ==
  IF "text" \in DOMAIN read
    THEN [w EXCEPT !.pc = "merge", !.template = Some(read.text)]
    ELSE IF read.error = "ENOENT"
      THEN exitWithError(w, "Template not found", <<>>)
      ELSE exitWithError(w, "Failed to read template", <<"cause">>)

\* The try/catch around readFile(templatePath): on ENOENT the default
\* template is tried when one is configured
readTemplate(w, read) ==
  IF "text" \in DOMAIN read
    THEN [w EXCEPT !.pc = "merge", !.template = Some(read.text)]
    ELSE IF read.error = "ENOENT"
      THEN IF w.defaultTemplate
             THEN [w EXCEPT !.pc = "readDefaultTemplate"]
             ELSE exitWithError(w, "Template not found", <<>>)
      ELSE exitWithError(w, "Failed to read template", <<"cause">>)

\* readFile(templatePath) has ended
ReadTemplate(read) ==
  /\ worker.pc = "readTemplate"
  /\ worker' =
       readTemplate(
         [worker EXCEPT !.reads =
            Append(@, Read(templatePath(worker.filePath, worker.templateExtension),
                           read))],
         read)
  /\ UNCHANGED <<liveReloadServer, shutdown, outputFiles, renderer>>
  /\ UNCHANGED <<cli, config, batches, watcher, handlers, imports, cpus, log>>

\* readFile(defaultTemplatePath)
ReadDefaultTemplate(read) ==
  /\ worker.pc = "readDefaultTemplate"
  /\ LET w == [worker EXCEPT !.reads = Append(@, Read(defaultTemplatePath, read))]
     IN worker' =
          IF "text" \in DOMAIN read
            THEN [w EXCEPT !.pc = "merge", !.template = Some(read.text)]
            ELSE exitWithError(w, "Template not found and default template not found", <<>>)
  /\ UNCHANGED <<liveReloadServer, shutdown, outputFiles, renderer>>
  /\ UNCHANGED <<cli, config, batches, watcher, handlers, imports, cpus, log>>

\* The merge of the rendered markup into the template
MergeTemplate ==
  /\ worker.pc = "merge"
  /\ LET merged == mergeWithEngine(worker.templateEngine, worker.template[1],
                                   worker.html, worker.styles, rootElementId)
     IN worker' =
          IF merged.threw
            THEN exitWithError(worker, "Template merge failed", merged.message)
            ELSE [worker EXCEPT !.pc = "write", !.finalHtml = Some(merged.value)]
  /\ UNCHANGED <<liveReloadServer, shutdown, outputFiles, renderer>>
  /\ UNCHANGED <<cli, config, batches, watcher, handlers, imports, cpus, log>>

\* mkdir and writeFile(absoluteOutputPath, finalHtml): a writeFile that
\* fails can leave a truncated file
WriteOutcomes == {"written", "mkdirFailed", "writeFailed"}

WriteOutput(outcome) ==
  /\ worker.pc = "write"
  /\ worker' =
       IF outcome = "written"
         THEN [worker EXCEPT !.pc = "exited", !.exitCode = Some(0)]
         ELSE exitWithError(worker, "Failed to write output", <<"cause">>)
  /\ outputFiles' =
       CASE outcome = "written" ->
              [outputFiles EXCEPT ![worker.absoluteOutputPath] = worker.finalHtml]
         [] outcome = "writeFailed" ->
              [outputFiles EXCEPT ![worker.absoluteOutputPath] = Some(<<>>)]
         [] OTHER -> outputFiles
  /\ UNCHANGED <<liveReloadServer, shutdown, renderer>>
  /\ UNCHANGED <<cli, config, batches, watcher, handlers, imports, cpus, log>>

\* Worker processes on an outputDir that may hold earlier output
OldOutput == Some(<<Div("old")>>)

WorkerInit ==
  /\ cli = [pc |-> "init", files |-> <<>>, watch |-> FALSE, exitCode |-> None,
            configResult |-> None, entryPoints |-> None, liveReload |-> FALSE]
  /\ config = NoConfig
  /\ batches = <<>>
  /\ watcher = NoWatcher
  /\ handlers = <<>>
  /\ imports = SharedFooter
  /\ cpus = MaxCpus
  /\ log = <<>>
  /\ liveReloadServer = NoLiveReloadServer
  /\ shutdown = NoShutdown
  /\ worker = NoWorker
  /\ renderer = NoRenderer
  /\ outputFiles \in {[p \in OutputPaths |-> old] : old \in {None, OldOutput}}

WorkerNext ==
  \/ \E filePath \in WorkerFiles, templateEngine \in TemplateEngines,
        templateExtension \in TemplateExtensions, defaultTemplate \in BOOLEAN :
       WorkerMain(filePath, templateEngine, templateExtension, defaultTemplate)
  \/ \E loads \in BOOLEAN : LoadModule(loads)
  \/ \E valid \in BOOLEAN : ExtractMountInfo(valid)
  \/ \E rendered \in {"markup", "styled", "empty", "throws"} : RenderComponent(rendered)
  \/ \E formats \in BOOLEAN : FormatWithPrettier(formats)
  \/ \E read \in ReadOutcomes : ReadTemplate(read)
  \/ \E read \in ReadOutcomes : ReadDefaultTemplate(read)
  \/ MergeTemplate
  \/ \E outcome \in WriteOutcomes : WriteOutput(outcome)

WorkerSpec == WorkerInit /\ [][WorkerNext]_vars

----------------------------------------------------------------------------
(* Live reload: the messages of the browser sockets *)

\* What a browser socket can send: the ping, an object of another type, an
\* object without a type, null, a JSON string, and text that is not JSON
\* (written here without the double quotes of JSON, 'ping' being the JSON
\* string and ping the bare word)
PingText == "{type:ping}"

Datas == {PingText, "{type:hello}", "{}", "null", "'ping'", "ping"}

\* JSON.parse(data.toString()): the value, or a SyntaxError
JSONParse(text) ==
  CASE text = PingText -> Return([kind |-> "object", type |-> Some("ping")])
    [] text = "{type:hello}" -> Return([kind |-> "object", type |-> Some("hello")])
    [] text = "{}" -> Return([kind |-> "object", type |-> None])
    [] text = "null" -> Return([kind |-> "null", type |-> None])
    [] text = "'ping'" -> Return([kind |-> "string", type |-> None])
    [] OTHER -> Throw("SyntaxError")

Pong == [type |-> "pong"]

\* A handleMessage that answers every message it can parse, to every socket
handleMessageAnswerAll(s, ws, data) ==
  IF JSONParse(data).threw THEN s ELSE broadcast(s, Pong)

\* handleMessage(ws, data): a ping is answered to ws; message.type of null
\* throws a TypeError, which the catch prints like the SyntaxError
handleMessage(s, ws, data) ==
  LET parsed == JSONParse(data)
  IN IF parsed.threw
       THEN s
       ELSE LET message == parsed.value
            IN IF message.kind = "null"
                 THEN s
                 ELSE IF message.type = Some("ping")
                   THEN sendMessage(s, ws, Pong)
                   ELSE s

\* ws.on('message'): data arrives on the open socket c.  received is the
\* list of the messages delivered so far
Message(c, data) ==
  /\ Alive
  /\ Quiescent
  /\ c \in liveReloadServer.connectedClients
  /\ liveReloadServer.readyState[c] = "OPEN"
  /\ Len(liveReloadServer.received) < MaxMessages
  /\ liveReloadServer' =
       [handleMessage(liveReloadServer, c, data) EXCEPT
          !.received = Append(@, [ws |-> c, data |-> data])]
  /\ UNCHANGED <<shutdown, worker, outputFiles, renderer>>
  /\ UNCHANGED <<cli, config, batches, watcher, handlers, imports, cpus, log>>

\* A watch session with live reload in which nothing changes on disk: the
\* browser sockets come, send and go, until SIGINT
LiveReloadInit ==
  /\ SessionInit
  /\ cli.liveReload

LiveReloadNext ==
  \/ StartWatchMode
  \/ WatcherStart({})
  \/ \E c \in Clients : Connection(c)
  \/ \E c \in Clients, data \in Datas : Message(c, data)
  \/ \E c \in Clients : SocketClosing(c)
  \/ \E c \in Clients : SocketClose(c)
  \/ Sigint
  \/ SigintDefault
  \/ WatcherClosed
  \/ LiveReloadClosed
  \/ ShutdownExit

LiveReloadSpec == LiveReloadInit /\ [][LiveReloadNext]_vars

\* A LiveReloadServer on its own: start() and stop() are called at any
\* time and in any order, sockets come, fail and go.  starts counts the
\* calls of start(), stops holds the promise of every call of stop()

\* start() is called
LiveReloadServerStart ==
  /\ liveReloadServer.starts < MaxStarts
  /\ liveReloadServer' = [start(liveReloadServer) EXCEPT !.starts = @ + 1]
  /\ UNCHANGED <<shutdown, worker, outputFiles, renderer>>
  /\ UNCHANGED <<cli, config, batches, watcher, handlers, imports, cpus, log>>

\* stop() is called
LiveReloadServerStop ==
  /\ Len(liveReloadServer.stops) < MaxStops
  /\ LET l == stopLiveReload(liveReloadServer)
     IN liveReloadServer' = [l.server EXCEPT !.stops = Append(@, l.promise)]
  /\ UNCHANGED <<shutdown, worker, outputFiles, renderer>>
  /\ UNCHANGED <<cli, config, batches, watcher, handlers, imports, cpus, log>>

\* The callbacks of wss.close and server.close have run for every stop()
\* that waits: wss = null, server = null, resolve()
LiveReloadServerClosed ==
  /\ liveReloadServer.closing
  /\ liveReloadServer' =
       [liveReloadServer EXCEPT
          !.wss = FALSE, !.closing = FALSE, !.servers = @ - 1,
          !.stops = [i \in DOMAIN @ |-> Fulfilled("void")]]
  /\ UNCHANGED <<shutdown, worker, outputFiles, renderer>>
  /\ UNCHANGED <<cli, config, batches, watcher, handlers, imports, cpus, log>>

\* ws.on('error'): the socket is removed from connectedClients.  ERRORED
\* stands for the readyState of a socket that has emitted 'error', which ws
\* closes without a handshake
SocketError(c) ==
  /\ c \in liveReloadServer.connectedClients
  /\ liveReloadServer' = [liveReloadServer EXCEPT
                            !.connectedClients = @ \ {c},
                            !.readyState[c] = "ERRORED"]
  /\ UNCHANGED <<shutdown, worker, outputFiles, renderer>>
  /\ UNCHANGED <<cli, config, batches, watcher, handlers, imports, cpus, log>>

LifecycleInit ==
  /\ WorkerInit
  /\ outputFiles = NoOutputFiles

LifecycleNext ==
  \/ LiveReloadServerStart
  \/ LiveReloadServerStop
  \/ LiveReloadServerClosed
  \/ \E c \in Clients : Connection(c)
  \/ \E c \in Clients : SocketClosing(c)
  \/ \E c \in Clients : SocketClose(c)
  \/ \E c \in Clients : SocketError(c)

LifecycleSpec == LifecycleInit /\ [][LifecycleNext]_vars

----------------------------------------------------------------------------
(* The Renderer class: renderFiles by chunks, and stop().  A process is    *)
(* known by the place of its file in filePaths.  One action is one event   *)
(* of the event loop with the promise reactions that follow it.            *)

\* chunkArray(array, size): the places of the elements of chunk number c
chunkArray(array, size, c) ==
  {i \in DOMAIN array : (c - 1) * size < i /\ i <= c * size}

\* this.config.maxConcurrentRenders || 4, 0 standing for a value not set
chunkSize(maxConcurrentRenders) ==
  IF maxConcurrentRenders = 0 THEN 4 ELSE maxConcurrentRenders

\* chunk.map(file => this.renderFile(file)): every process of the chunk is
\* spawned and handleProcessResult adds it to activeProcesses
renderChunk(r, c) ==
  LET chunk == chunkArray(r.filePaths, r.maxConcurrent, c)
  IN [r EXCEPT !.chunk = c,
               !.process = [p \in Processes |-> IF p \in chunk THEN "running" ELSE @[p]],
               !.activeProcesses = @ \cup chunk]

\* The loop of renderFiles after Promise.all(chunk) has resolved: the next
\* chunk, or the return of the results
nextChunk(r) ==
  IF r.chunk = 0 \/ r.returned
       \/ \E p \in chunkArray(r.filePaths, r.maxConcurrent, r.chunk) : r.results[p] = None
    THEN r
    ELSE IF chunkArray(r.filePaths, r.maxConcurrent, r.chunk + 1) # {}
      THEN renderChunk(r, r.chunk + 1)
      ELSE [r EXCEPT !.returned = TRUE]

\* What follows the resolve() of a shutdown promise of stop(): when it was
\* the last one, Promise.all resolves, activeProcesses.clear(), stop()
\* resolves
shutdownResolved(r, p) ==
  LET promises == [r.stop.shutdownPromises EXCEPT ![p] = "resolved"]
      all == \A q \in DOMAIN promises : promises[q] = "resolved"
  IN IF r.stop.state # "pending" \/ p \notin DOMAIN r.stop.shutdownPromises
       THEN r
       ELSE [r EXCEPT !.stop.shutdownPromises = promises,
                      !.stop.timeout = @ \ {p},
                      !.stop.state = IF all THEN "resolved" ELSE @,
                      !.activeProcesses = IF all THEN {} ELSE @]

\* The result handleProcessResult resolves with on 'close'
closeResult(code) ==
  IF code = Some(0) THEN [success |-> TRUE]
                    ELSE [success |-> FALSE, code |-> "PROCESS_EXIT_ERROR"]

\* renderer.renderFiles(filePaths) is called: the first chunk is spawned
RenderFiles(filePaths, maxConcurrentRenders) ==
  /\ renderer.chunk = 0
  /\ renderer.stop.state = "none"
  /\ renderer' =
       IF Len(filePaths) = 0
         THEN [renderer EXCEPT !.returned = TRUE]
         ELSE renderChunk([renderer EXCEPT
                             !.filePaths = filePaths,
                             !.maxConcurrent = chunkSize(maxConcurrentRenders)], 1)
  /\ UNCHANGED <<cli, config, batches, watcher, handlers, imports, cpus, log>>
  /\ UNCHANGED <<liveReloadServer, shutdown, worker, outputFiles>>

\* 'close' of process p, with its exit code, or with no code when a signal
\* has ended it: the listener of handleProcessResult (cleanup, resolve),
\* then the listener of stop() if stop() has put one (clearTimeout,
\* resolve).  Of the promise reactions that follow, the one of stop() is
\* the shorter chain and runs first: clear() comes before the spawn of the
\* next chunk
ProcessClose(p, code) ==
  /\ renderer.process[p] = "running"
  /\ code = None => renderer.signals[p] # <<>>
  /\ LET closed == [renderer EXCEPT !.process[p] = "closed",
                                    !.activeProcesses = @ \ {p},
                                    !.results[p] = Some(closeResult(code))]
     IN renderer' = nextChunk(shutdownResolved(closed, p))
  /\ UNCHANGED <<cli, config, batches, watcher, handlers, imports, cpus, log>>
  /\ UNCHANGED <<liveReloadServer, shutdown, worker, outputFiles>>

\* renderer.stop() is called: at once done with no active process, else a
\* timer of 5 seconds, a 'close' listener and SIGTERM for each of them
RendererStop ==
  /\ renderer.stop.state = "none"
  /\ renderer.chunk # 0
  /\ renderer' =
       IF renderer.activeProcesses = {}
         THEN [renderer EXCEPT !.stop.state = "resolved"]
         ELSE [renderer EXCEPT
                 !.stop = [state |-> "pending",
                           shutdownPromises |->
                             [p \in renderer.activeProcesses |-> "pending"],
                           timeout |-> renderer.activeProcesses],
                 !.signals = [p \in Processes |->
                                IF p \in renderer.activeProcesses
                                  THEN Append(@[p], "SIGTERM") ELSE @[p]]]
  /\ UNCHANGED <<cli, config, batches, watcher, handlers, imports, cpus, log>>
  /\ UNCHANGED <<liveReloadServer, shutdown, worker, outputFiles>>

\* The timer of process p fires, 5 seconds after stop(): SIGKILL, resolve()
Timeout(p) ==
  /\ p \in renderer.stop.timeout
  /\ renderer' =
       shutdownResolved([renderer EXCEPT !.signals[p] = Append(@, "SIGKILL")], p)
  /\ UNCHANGED <<cli, config, batches, watcher, handlers, imports, cpus, log>>
  /\ UNCHANGED <<liveReloadServer, shutdown, worker, outputFiles>>

\* The files of the calls of renderFiles
RenderFilePaths == {<<Home>>, <<Home, About>>, <<Home, About, BlogHome>>}

RendererInit ==
  /\ WorkerInit
  /\ outputFiles = NoOutputFiles

RendererNext ==
  \/ \E filePaths \in RenderFilePaths, maxConcurrentRenders \in 0..MaxLimit :
       RenderFiles(filePaths, maxConcurrentRenders)
  \/ \E p \in Processes, code \in {None, Some(0), Some(1)} : ProcessClose(p, code)
  \/ RendererStop
  \/ \E p \in Processes : Timeout(p)

RendererSpec == RendererInit /\ [][RendererNext]_vars

----------------------------------------------------------------------------
(* Properties of shutdown, of error handling in the watcher and of live    *)
(* reload                                                                  *)

\* C13: when the shutdown signal arrives while a batch is partly executed,
\* every task of the batch has its outcome reported before the process
\* exits: at exit no batch is left whose results were not reported
C13_NoTaskDroppedAtShutdown ==
  (cli.pc = "exited" /\ shutdown.started) =>
     \A k \in DOMAIN batches : batches[k].consumed

\* C14: on the interrupt signal in watch mode the process never exits while
\* the watch subscription or, with live reload, the notification server is
\* still open or still closing
C14_ExitAfterClose ==
  cli.pc = "exited" =>
     /\ ~watcher.open
     /\ ~watcher.closing
     /\ ~liveReloadServer.wss

\* C15: once the SIGINT handler has started, no batch is dispatched to the
\* scheduler and no graph rebuild is started, also not by a call of
\* handleFileChange that was waiting at an await when the signal arrived
C15_NoDispatchAfterSignal ==
  [][shutdown.started =>
       /\ Len(batches') = Len(batches)
       /\ \A h \in DOMAIN handlers :
            handlers'[h].pc = "rebuildDependencyGraph"
              => handlers[h].pc = "rebuildDependencyGraph"
    ]_vars

\* Handling a change event has gone wrong before: an exception was caught,
\* or a batch was reported with a failed outcome
FailureSeen ==
  \/ \E h \in DOMAIN handlers : handlers[h].caught
  \/ \E i \in DOMAIN log : log[i].failed > 0

\* C16: a failed render outcome or an exception while handling a change
\* event never stops the watcher: no call of handleFileChange rejects, and
\* as long as no shutdown was asked for the subscription stays open on the
\* same paths, so that the next change event is taken
C16_WatcherSurvivesFailures ==
  /\ \A h \in DOMAIN handlers : handlers[h].pc # "rejected"
  /\ (FailureSeen /\ Alive /\ ~shutdown.started) =>
       /\ watcher.open
       /\ cli.pc = "watching"
       /\ \A filePath \in SessionEventPaths :
            \E d \in watcher.watched : startsWith(resolve(filePath), d)

\* The first event ended in the catch block after a failed outcome, and the
\* event after it was classified and its batch dispatched
C16_Witness ==
  /\ Len(handlers) = 2
  /\ handlers[1].caught
  /\ \E i \in DOMAIN log : log[i].failed > 0
  /\ handlers[2].dispatched # None
  /\ \E k \in DOMAIN batches : batches[k].owner = ByHandler(2)

\* C19: a reload message is sent to a client only after a batch in which no
\* task failed
C19_ReloadOnlyAfterSuccess ==
  \A c \in Clients :
    \A i \in DOMAIN liveReloadServer.messages[c] :
      liveReloadServer.messages[c][i].failed = 0

\* The batches whose results the change callback takes in this step
ReportedNow ==
  {k \in DOMAIN batches : ~batches[k].consumed /\ batches'[k].consumed}

\* C20: with live reload enabled, the step in which the change callback has
\* all outcomes of a batch sends one reload message to every connected
\* client whose socket is open, and no message is sent in any other step or
\* to any other socket
C20_OneReloadPerBatch ==
  [][\A c \in Clients :
       IF /\ ReportedNow # {}
          /\ cli.liveReload
          /\ c \in liveReloadServer.connectedClients
          /\ liveReloadServer.readyState[c] = "OPEN"
         THEN \E k \in ReportedNow :
                /\ batches[k].all.state = "fulfilled"
                /\ \A i \in Tasks(batches[k]) : Settled(batches[k], i)
                /\ Len(liveReloadServer'.messages[c])
                     = Len(liveReloadServer.messages[c]) + 1
                /\ liveReloadServer'.messages[c][Len(liveReloadServer'.messages[c])].type
                     = "reload"
                /\ liveReloadServer'.messages[c][Len(liveReloadServer'.messages[c])].batch
                     = k
         ELSE liveReloadServer'.messages[c] = liveReloadServer.messages[c]
    ]_vars

\* Two batches were reported: one socket was open both times and has two
\* reload messages, the other was closing the second time and has one
C20_Witness ==
  \E c, d \in Clients :
    /\ Len(liveReloadServer.messages[c]) = 2
    /\ liveReloadServer.messages[c][1].batch # liveReloadServer.messages[c][2].batch
    /\ Len(liveReloadServer.messages[d]) = 1
    /\ d \in liveReloadServer.connectedClients
    /\ liveReloadServer.readyState[d] = "CLOSING"

----------------------------------------------------------------------------
(* Properties of the worker process *)

\* C17: a task that fails at a step before the write step ends as a failed
\* outcome and its output file is neither created nor modified: only the
\* write step changes a file under outputDir, an exit from any earlier step
\* is exit code 1, and a template without a div of the root element id
\* always ends the worker at the merge step with 'Template merge failed'
C17_FailureBeforeWriteLeavesOutput ==
  [][/\ outputFiles' # outputFiles => worker.pc = "write"
     /\ (worker.pc \notin {"none", "write", "exited"} /\ worker'.pc = "exited") =>
          /\ worker'.exitCode = Some(1)
          /\ ~outcomeOf(worker').success
          /\ outcomeOf(worker').error.filePath = worker.filePath
          /\ outputFiles' = outputFiles
     /\ (worker.pc = "merge" /\ test(worker.template[1], rootElementId) = {}) =>
          /\ worker'.pc = "exited"
          /\ worker'.exitCode = Some(1)
          /\ worker'.stderr[1] = "Template merge failed"
          /\ ~outcomeOf(worker').success
    ]_vars

\* A worker has ended at the merge step on a template that has a div but
\* not the root div, and the output written earlier is still there
C17_Witness ==
  /\ worker.pc = "exited"
  /\ worker.exitCode = Some(1)
  /\ worker.stderr[1] = "Template merge failed"
  /\ worker.template = Some(<<Div("sidebar")>>)
  /\ worker.html = "markup"
  /\ outputFiles[worker.absoluteOutputPath] = OldOutput

\* The workers that have exited so far, the last one included
Finished ==
  worker.finished \o (IF worker.pc = "exited" THEN <<summary(worker)>> ELSE <<>>)

\* C18: two failed outcomes whose workers failed at different steps never
\* carry the same error code
C18_DistinctErrorKinds ==
  \A i, j \in DOMAIN Finished :
    (/\ Finished[i].code # None
     /\ Finished[j].code # None
     /\ Finished[i].message # Finished[j].message)
    => Finished[i].code # Finished[j].code

\* C22: the worker for the entry point <dir>/<name>.<ext> writes to
\* <outputDir>/<dir>/<name><templateExtension>, '.html' standing in for a
\* templateExtension that is not set, and to no other file; no other entry
\* point that differs from it in <dir> or <name> has that output path
C22_OutputMirrorsEntryPoint ==
  [][outputFiles' # outputFiles =>
       LET expected ==
             [dir |-> outputDir \o worker.filePath.dir,
              base |-> <<worker.filePath.name,
                         IF worker.templateExtension = None
                           THEN ".html" ELSE worker.templateExtension[1]>>]
       IN /\ expected \in OutputPaths
          /\ \A p \in OutputPaths \ {expected} : outputFiles'[p] = outputFiles[p]
          /\ \A f \in WorkerFiles :
               (f.dir # worker.filePath.dir \/ f.name # worker.filePath.name)
               => absoluteOutputPath(f, worker.templateExtension) # expected
    ]_vars

\* The worker for blog/home.tsx has written dist/blog/home.html after the
\* worker for home.tsx has written dist/home.html, which is still there,
\* and nothing was written for about.tsx
C22_Witness ==
  /\ worker.pc = "exited"
  /\ worker.exitCode = Some(0)
  /\ worker.filePath = BlogHome
  /\ worker.templateExtension = None
  /\ outputFiles[[dir |-> <<"dist", "blog">>, base |-> <<"home", ".html">>]]
       = worker.finalHtml
  /\ outputFiles[[dir |-> <<"dist">>, base |-> <<"home", ".html">>]]
       \notin {None, Some(<<>>)}
  /\ outputFiles[[dir |-> <<"dist">>, base |-> <<"about", ".html">>]] = None

\* C23: when the template of the entry point does not exist (ENOENT), a
\* worker with a defaultTemplate goes on to read it at
\* <templateDir>/<defaultTemplate>; when that read succeeds, its text is the
\* template of the merge and the only file written is the entry point's own
\* output path; a worker without a defaultTemplate, or whose defaultTemplate
\* cannot be read, exits with code 1, is a failed outcome and writes nothing
C23_DefaultTemplateFallback ==
  [][(/\ worker'.pc # "none"
      /\ Len(worker'.reads) >= 1
      /\ worker'.reads[1].error = Some("ENOENT"))
     => IF worker'.defaultTemplate /\ Len(worker'.reads) = 1
          THEN /\ worker'.pc = "readDefaultTemplate"
               /\ outputFiles' = outputFiles
        ELSE IF worker'.defaultTemplate /\ worker'.reads[2].error = None
          THEN /\ worker'.reads[2].path =
                    [dir |-> <<"templates">>, base |-> <<"default", ".html">>]
               /\ worker'.template = worker'.reads[2].text
               /\ worker'.finalHtml # None =>
                    [i \in DOMAIN worker'.finalHtml[1] |-> worker'.finalHtml[1][i].id]
                      = [i \in DOMAIN worker'.template[1] |-> worker'.template[1][i].id]
               /\ \A p \in OutputPaths :
                    outputFiles'[p] # outputFiles[p] =>
                      p = [dir |-> outputDir \o worker'.filePath.dir,
                           base |-> <<worker'.filePath.name,
                                      outputExtension(worker'.templateExtension)>>]
          ELSE /\ worker'.pc = "exited"
               /\ worker'.exitCode = Some(1)
               /\ ~outcomeOf(worker').success
               /\ outputFiles' = outputFiles
    ]_vars

\* The worker for blog/home.tsx found no template of its own, read the
\* default template and has written dist/blog/home.html from it
C23_Witness ==
  /\ worker.pc = "exited"
  /\ worker.exitCode = Some(0)
  /\ worker.filePath = BlogHome
  /\ Len(worker.reads) = 2
  /\ worker.reads[1].error = Some("ENOENT")
  /\ worker.reads[2].text = Some(<<Div("sidebar"), Div(rootElementId)>>)
  /\ outputFiles[worker.absoluteOutputPath] = worker.finalHtml
  /\ worker.finalHtml # None

----------------------------------------------------------------------------
(* Properties of the dependency graph and of the classification of change  *)
(* events                                                                  *)

\* C24: in every state of a watch session, after any number of rebuilds and
\* whichever entry points could not be analysed, b is in dependencyGraph[a]
\* if and only if a is in reverseDependencyGraph[b], for all files a and b
C24_ReverseIsTranspose ==
  /\ DOMAIN watcher.dependencyGraph \subseteq DOMAIN imports
  /\ DOMAIN watcher.reverseDependencyGraph \subseteq DOMAIN imports
  /\ \A a, b \in DOMAIN imports :
       (b \in get(watcher.dependencyGraph, a))
         <=> (a \in get(watcher.reverseDependencyGraph, b))

\* Two change events have each ended with a rebuild, and in the last one
\* the analysis of about failed
C24_Witness ==
  /\ watcher.open
  /\ Len(handlers) = 2
  /\ \A h \in DOMAIN handlers :
       /\ handlers[h].pc = "done"
       /\ handlers[h].branch \in {"entryPoint", "dependency"}
       /\ ~handlers[h].caught
  /\ AbsHome \in DOMAIN watcher.dependencyGraph
  /\ AbsAbout \notin DOMAIN watcher.dependencyGraph
  /\ Footer \in DOMAIN watcher.reverseDependencyGraph

\* C25: a rebuild leaves in both maps only edges of the entry points it has
\* analysed, and a rebuild that analyses the entry points the maps were
\* built from leaves both maps as they were
C25_RebuildIdempotent ==
  [][\A h \in 1..MaxEvents, failing \in FailingSets :
       RebuildDependencyGraph(h, failing, "found") =>
         LET analysed == globEntryPoints(imports) \ failing
         IN /\ DOMAIN watcher'.dependencyGraph = analysed
            /\ \A d \in DOMAIN watcher'.reverseDependencyGraph :
                 watcher'.reverseDependencyGraph[d] \subseteq analysed
            /\ DOMAIN watcher.dependencyGraph = analysed =>
                 /\ watcher'.dependencyGraph = watcher.dependencyGraph
                 /\ watcher'.reverseDependencyGraph = watcher.reverseDependencyGraph
    ]_vars

\* Two change events have each ended with a rebuild of the full graph
C25_Witness ==
  /\ watcher.open
  /\ Len(handlers) = 2
  /\ \A h \in DOMAIN handlers :
       /\ handlers[h].pc = "done"
       /\ handlers[h].branch = "dependency"
       /\ ~handlers[h].caught
  /\ DOMAIN watcher.dependencyGraph = {AbsHome, AbsAbout}

\* C26: the graph of a started watcher is, for some set of entry points
\* whose analysis failed, exactly the graph of the other entry points: each
\* of them maps to the files its dependency tree holds, each such file maps
\* back to the entry points that reach it, and there is nothing else
C26_PartialGraphOnFailure ==
  watcher.open =>
    \E failing \in FailingSets :
      LET analysed == globEntryPoints(imports) \ failing
      IN /\ watcher.dependencyGraph =
              [e \in analysed |-> dependencyTree(imports, e)]
         /\ watcher.reverseDependencyGraph =
              [d \in UNION {dependencyTree(imports, e) : e \in analysed} |->
                 {e \in analysed : d \in dependencyTree(imports, e)}]

\* The analysis of about failed, and the graph holds home with its
\* dependency footer
C26_Witness ==
  /\ watcher.open
  /\ DOMAIN watcher.dependencyGraph = {AbsHome}
  /\ Footer \in watcher.dependencyGraph[AbsHome]
  /\ AbsHome \in watcher.reverseDependencyGraph[Footer]

\* C27: a change handler whose batch has completed goes on to rebuild the
\* dependency graph, whichever branch of handleFileChange dispatched the
\* batch
C27_RebuildAfterEveryBatch ==
  [][\A h \in DOMAIN handlers :
       (/\ handlers[h].pc = "onFileChange"
        /\ handlers'[h].pc # "onFileChange"
        /\ ~handlers'[h].caught)
       => handlers'[h].pc = "rebuildDependencyGraph"
    ]_vars

\* C28: what a change handler decides on its classification read is what
\* it would decide on the complete graph of some build, whatever other
\* handlers are doing
C28_ClassificationSeesCompleteGraph ==
  [][Len(handlers') = Len(handlers) + 1 =>
       LET new == handlers'[Len(handlers')]
       IN \E failing \in FailingSets :
            LET analysed == globEntryPoints(imports) \ failing
                complete ==
                  [d \in UNION {dependencyTree(imports, e) : e \in analysed} |->
                     {e \in analysed : d \in dependencyTree(imports, e)}]
                c == classify(new.filePath, complete)
            IN /\ new.branch = c.branch
               /\ c.branch \in {"entryPoint", "dependency"} =>
                    new.dispatched = Some(c.files)
    ]_vars

\* A change of footer is classified while the handler of an earlier change
\* is waiting for the glob of its rebuild, and it dispatches both entry
\* points
C28_Witness ==
  /\ Len(handlers) = 2
  /\ handlers[1].pc = "rebuildDependencyGraph"
  /\ handlers[2].branch = "dependency"
  /\ handlers[2].dispatched # None
  /\ Len(handlers[2].dispatched[1]) = 2

\* C29: a reload message for a batch that the entry-point branch or the
\* dependency branch of handleFileChange dispatched is sent only when the
\* handler has completed its rebuild of the dependency graph
C29_ReloadAfterRebuild ==
  [][\A c \in Clients :
       Len(liveReloadServer'.messages[c]) > Len(liveReloadServer.messages[c]) =>
         LET m == liveReloadServer'.messages[c][Len(liveReloadServer'.messages[c])]
             h == batches[m.batch].owner.handler
         IN handlers[h].branch \in {"entryPoint", "dependency"} =>
              /\ handlers'[h].pc = "done"
              /\ ~handlers'[h].caught
    ]_vars

\* C30: a change event for a file under entryPointDir with a configured
\* extension dispatches the batch of that one entry point, by its path
\* relative to entryPointDir, whatever the graph holds; a change event for
\* a file outside templateDir with another extension, or for a file outside
\* entryPointDir and templateDir that the graph does not hold, ends the
\* handler at once, with no batch and no rebuild
C30_EntryPointAndIgnoredEvents ==
  [][Len(handlers') = Len(handlers) + 1 =>
       LET new == handlers'[Len(handlers')]
           absolutePath == resolve(new.filePath)
           inEntryRoot == startsWith(absolutePath, cwd \o entryPointDir)
           inTemplateRoot == startsWith(absolutePath, cwd \o templateDir)
           configured == new.filePath.ext \in fileExtensions
           inGraph == absolutePath \in DOMAIN watcher.reverseDependencyGraph
       IN /\ (inEntryRoot /\ configured) =>
               /\ \E r \in EntryRel :
                    /\ EntryPointOf(r) = absolutePath
                    /\ new.dispatched = Some(<<r>>)
                    /\ Len(batches') = Len(batches) + 1
                    /\ batches'[Len(batches')].files = <<r>>
          /\ (\/ ~configured /\ ~inTemplateRoot
              \/ ~inEntryRoot /\ ~inTemplateRoot /\ ~inGraph) =>
               /\ new.pc = "done"
               /\ new.dispatched = None
               /\ batches' = batches
               /\ watcher' = watcher
    ]_vars

\* about.tsx, which home imports, has changed and the batch is about alone;
\* a change of theme.css was ignored
C30_Witness ==
  /\ imports = EntryImportsEntry
  /\ Len(handlers) = 2
  /\ handlers[1].filePath = OnDisk(AbsAbout)
  /\ handlers[1].dispatched = Some(<<About>>)
  /\ AbsAbout \in watcher.reverseDependencyGraph[AbsAbout]
  /\ AbsHome \in watcher.reverseDependencyGraph[AbsAbout]
  /\ handlers[2].filePath = Theme
  /\ handlers[2].pc = "done"
  /\ handlers[2].dispatched = None

\* C38: what a call of handleFileChange does depends on the path and on
\* the graph, not on the event kind: for 'add', 'change' and 'unlink' alike
\* the branch and the batch are those the path has in the graph as it is,
\* and an event for the entry point about.tsx, its removal included,
\* dispatches the batch of about.tsx
C38_BatchIndependentOfEventKind ==
  [][\A action \in WatcherEventTypes, filePath \in EventPaths :
       (/\ Len(handlers') = Len(handlers) + 1
        /\ handlers'[Len(handlers')].action = action
        /\ handlers'[Len(handlers')].filePath = filePath)
       => LET new == handlers'[Len(handlers')]
              c == classify(filePath, watcher.reverseDependencyGraph)
          IN /\ new.branch = c.branch
             /\ IF c.branch \in {"entryPoint", "dependency"}
                  THEN /\ new.dispatched = Some(c.files)
                       /\ Len(batches') = Len(batches) + 1
                       /\ batches'[Len(batches')].files = c.files
                  ELSE /\ new.dispatched = None
                       /\ batches' = batches
             /\ filePath = OnDisk(AbsAbout) =>
                  /\ new.dispatched = Some(<<About>>)
                  /\ batches'[Len(batches')].files = <<About>>
    ]_vars

\* about.tsx was removed and then added: each event has dispatched the
\* batch of about.tsx
C38_Witness ==
  /\ Len(handlers) = 2
  /\ Len(batches) = 2
  /\ handlers[1].action = "unlink"
  /\ handlers[1].filePath = OnDisk(AbsAbout)
  /\ handlers[1].dispatched = Some(<<About>>)
  /\ batches[1].files = <<About>>
  /\ handlers[2].action = "add"
  /\ handlers[2].filePath = OnDisk(AbsAbout)
  /\ handlers[2].dispatched = Some(<<About>>)
  /\ batches[2].files = <<About>>

\* The graph the watcher holds
Graph(w) ==
  [dependencyGraph |-> w.dependencyGraph,
   reverseDependencyGraph |-> w.reverseDependencyGraph]

\* C37: the watched set is that of the graph start() has built, and no
\* later step changes it, a rebuild of the graph included
C37_WatchedSetFixedAtStart ==
  [][/\ (~watcher.open /\ watcher'.open) =>
          watcher'.watched = watchPatterns(Graph(watcher'))
     /\ watcher.open => watcher'.watched = watcher.watched
    ]_vars

\* The graph was built without about.tsx at the start and rebuilt with it:
\* it now holds footer.tsx, in a directory that is not watched
C37_Witness ==
  /\ watcher.open
  /\ \E h \in DOMAIN handlers :
       handlers[h].pc = "done" /\ handlers[h].branch = "entryPoint"
         /\ ~handlers[h].caught
  /\ Footer \in DOMAIN watcher.reverseDependencyGraph
  /\ resolveDir(componentsDir) \in getWatchDirectories(Graph(watcher))
  /\ ~\E d \in watcher.watched : startsWith(Footer, d)

\* C31: an event for a path under templateDir takes the template branch;
\* when its glob returns, the batch dispatched holds, once each, the entry
\* points under entryPointDir, at any depth, that have a configured
\* extension and the name of the template, and when there is none the
\* handler ends with no batch and no error
C31_TemplateBatchByBaseName ==
  [][\A h \in DOMAIN handlers :
       LET inTemplateRoot ==
             startsWith(resolve(handlers[h].filePath), cwd \o templateDir)
           matching ==
             {e \in DOMAIN imports :
                /\ startsWith(e, cwd \o entryPointDir)
                /\ e.ext \in fileExtensions
                /\ e.name = handlers[h].filePath.name}
           expected == {substring(e, cwd \o entryPointDir) : e \in matching}
       IN /\ inTemplateRoot <=> handlers[h].branch = "template"
          /\ (handlers[h].pc = "glob" /\ handlers'[h].pc # "glob"
                /\ ~handlers'[h].caught) =>
               IF expected # {}
                 THEN /\ handlers'[h].dispatched # None
                      /\ Range(handlers'[h].dispatched[1]) = expected
                      /\ Len(handlers'[h].dispatched[1]) = Cardinality(expected)
                      /\ Len(batches') = Len(batches) + 1
                      /\ batches'[Len(batches')].files = handlers'[h].dispatched[1]
                 ELSE /\ handlers'[h].pc = "done"
                      /\ handlers'[h].dispatched = None
                      /\ batches' = batches
    ]_vars

\* templates/home.html has changed and the batch was home.tsx and
\* blog/home.tsx; templates/layout.html has changed and nothing was
\* dispatched
C31_Witness ==
  /\ Len(handlers) = 2
  /\ handlers[1].filePath = TemplateHome
  /\ handlers[1].dispatched # None
  /\ Range(handlers[1].dispatched[1]) = {Home, BlogHome}
  /\ batches[1].files = handlers[1].dispatched[1]
  /\ handlers[2].filePath = TemplateLayout
  /\ handlers[2].pc = "done"
  /\ handlers[2].dispatched = None
  /\ ~handlers[2].caught
  /\ Len(batches) = 1

----------------------------------------------------------------------------
(* Properties of the paths and of the steps of the worker *)

\* The path of a source file written as the worker writes an output path:
\* the directory and the base name, the base name being the name followed
\* by the extension with its dot
extname(p) ==
  CASE p.ext = "tsx" -> ".tsx"
    [] p.ext = "html" -> ".html"
    [] p.ext = "php" -> ".php"

asWritten(p) == [dir |-> p.dir, base |-> <<p.name, extname(p)>>]

\* C36: when a worker has exited with 0, the outputPath and the data of
\* the outcome renderFile makes of it are the path of the file the worker
\* has written, absoluteOutputPath
C36_ReportedPathIsWrittenPath ==
  (worker.pc = "exited" /\ worker.exitCode = Some(0)) =>
    /\ outcomeOf(worker).success
    /\ asWritten(outcomeOf(worker).outputPath) = worker.absoluteOutputPath
    /\ asWritten(outcomeOf(worker).data) = worker.absoluteOutputPath

\* C32: a worker that leaves the formatting step goes on to read the
\* template, whether format() has thrown or not: it does not exit there
C32_FormatFailureIsNotFatal ==
  [][(worker.pc = "format" /\ worker'.pc # "format") =>
       /\ worker'.pc = "readTemplate"
       /\ worker'.exitCode = None
    ]_vars

----------------------------------------------------------------------------
(* Properties of the messages of the browser sockets *)

\* C39: there is at most one server, and there is one exactly while
\* isRunning(); connectedClients holds the sockets that have connected and
\* have not closed, failed or been terminated; start() with a server
\* running changes nothing; stop() without a server running resolves at
\* once and changes nothing; and when the promise of a stop() resolves,
\* isRunning() is false and connectedClients is empty
C39_AtMostOneServer ==
  [][LET s == liveReloadServer
         t == liveReloadServer'
     IN /\ t.servers <= 1
        /\ t.wss <=> t.servers = 1
        /\ t.connectedClients =
             {c \in Clients : t.readyState[c] \in {"OPEN", "CLOSING"}}
        /\ (t.starts = s.starts + 1 /\ s.wss) => t = [s EXCEPT !.starts = @ + 1]
        /\ (Len(t.stops) = Len(s.stops) + 1 /\ ~s.wss) =>
             t = [s EXCEPT !.stops = Append(@, Fulfilled("void"))]
        /\ \A i \in DOMAIN t.stops :
             (t.stops[i].state = "fulfilled"
                /\ (i \in DOMAIN s.stops => s.stops[i].state = "pending"))
             => ~t.wss /\ t.connectedClients = {}
    ]_vars

\* The server was started twice and stopped twice, a third stop() found
\* no server; one socket has failed and one was terminated by a stop()
C39_Witness ==
  /\ liveReloadServer.starts = 2
  /\ Len(liveReloadServer.stops) = 3
  /\ \A i \in 1..3 : liveReloadServer.stops[i].state = "fulfilled"
  /\ ~liveReloadServer.wss
  /\ liveReloadServer.servers = 0
  /\ liveReloadServer.readyState = <<"ERRORED", "CLOSED">>

\* C33: stop() sends SIGTERM to every process that is active when it is
\* called; when it has resolved, each of those processes has closed or was
\* sent SIGKILL by its timer; and once it has resolved, activeProcesses is
\* empty
C33_StopLeavesNoActiveProcess ==
  [][/\ (renderer.stop.state = "none" /\ renderer'.stop.state # "none") =>
          \A p \in renderer.activeProcesses :
            renderer'.signals[p] = Append(renderer.signals[p], "SIGTERM")
     /\ renderer'.stop.state = "resolved" =>
          /\ \A p \in DOMAIN renderer'.stop.shutdownPromises :
               \/ renderer'.process[p] = "closed"
               \/ "SIGKILL" \in Range(renderer'.signals[p])
          /\ renderer'.activeProcesses = {}
    ]_vars

----------------------------------------------------------------------------

\* C21: every message a socket sends leaves connectedClients and every
\* readyState as they were; a ping adds exactly one pong to the messages
\* sent to that socket and nothing to the other sockets; any other message
\* (another type, no type, null, a JSON string, not JSON) adds nothing to
\* any socket
C21_PingAnsweredOnce ==
  [][\A c \in Clients, data \in Datas :
       (liveReloadServer'.received =
          Append(liveReloadServer.received, [ws |-> c, data |-> data]))
       => /\ liveReloadServer'.connectedClients = liveReloadServer.connectedClients
          /\ liveReloadServer'.readyState = liveReloadServer.readyState
          /\ \A d \in Clients :
               liveReloadServer'.messages[d] =
                 IF d = c /\ data = PingText
                   THEN Append(liveReloadServer.messages[d], Pong)
                   ELSE liveReloadServer.messages[d]
    ]_vars

\* Two sockets are connected; one has sent a ping and null and has got one
\* pong, the other has got nothing
C21_Witness ==
  \E c \in Clients :
    /\ liveReloadServer.connectedClients = Clients
    /\ liveReloadServer.received =
         <<[ws |-> c, data |-> PingText], [ws |-> c, data |-> "null"]>>
    /\ liveReloadServer.messages[c] = <<Pong>>
    /\ \A d \in Clients \ {c} : liveReloadServer.messages[d] = <<>>

====
